---------------------------- MODULE Spec2Model ----------------------------
(***************************************************************************)
(* A model of the Fit-Formal-Node backend: the route handlers of the order *)
(* router (my-orders, submit-measurement), of the business router          *)
(* (tailor-date-availability) and of the product router (create, update,   *)
(* delete), with the database tables their statements read and write.      *)
(*                                                                         *)
(* Every await of a handler is one step: the database statement it issues  *)
(* and the synchronous code up to the next await.  A database call either  *)
(* returns or throws; which one is the environment's choice.               *)
(***************************************************************************)
EXTENDS Integers, Sequences, FiniteSets, TLC

(***************************************************************************)
(* Bounds of the model.                                                    *)
(***************************************************************************)
MaxOrderId == 2
MaxRows == 2
MaxFields == 2
MaxSubmissions == 2
MaxTdRequests == 2
MaxImages == 2
MaxItems == 2
MaxDetails == 2
MaxPriceRows == 4

(***************************************************************************)
(* Generic helpers.                                                        *)
(***************************************************************************)
Range(s) == {s[i] : i \in 1..Len(s)}

SeqsUpTo(S, n) == UNION {[1..k -> S] : k \in 0..n}

NULL == "null"

(***************************************************************************)
(* State.                                                                  *)
(***************************************************************************)
VARIABLES
    \* GET /my-orders (one request)
    moPc,             \* position of the handler
    moRolesFetched,   \* GetUserRoles has returned
    moUserRoles,      \* role_name values returned by GetUserRoles
    moBusiness,       \* businessId returned by GetBusinessByUserId, 0 = no row
    moTailorRows,     \* rows returned by GetOrdersByTailorId
    moShopRows,       \* rows returned by GetOrdersByShopId (sellerOrdersData)
    moOrdersData,     \* the handler's ordersData
    moCalls,          \* database calls issued by the request, in order
    moStatus,         \* HTTP status of the response, 0 = not yet sent
    moOrders          \* data.orders of the 200 response

moVars == <<moPc, moRolesFetched, moUserRoles, moBusiness, moTailorRows, moShopRows,
            moOrdersData, moCalls, moStatus, moOrders>>

VARIABLES
    \* the Measurements and OrderItems tables
    measurements,       \* rows of Measurements
    nextMeasurementId,  \* the identity column of Measurements
    isMeasurementDone,  \* OrderItems.isMeasurementDone, by orderItemId
    \* POST /measurement-boy/submit-measurement
    msReq,              \* the requests: position, payload and locals
    msSubmitted         \* requests received so far

msVars == <<measurements, nextMeasurementId, isMeasurementDone, msReq,
            msSubmitted>>

VARIABLES
    \* GET /measurement-boy/orders (one request)
    mbReq

mbVars == <<mbReq>>

VARIABLES
    \* the TailorDateAvailability table
    availability,       \* rows of TailorDateAvailability
    nextAvailabilityId, \* its identity column
    \* POST /tailor-date-availability
    tdReq               \* the requests: position, payload and locals

tdVars == <<availability, nextAvailabilityId, tdReq>>

VARIABLES
    \* the product tables
    products,           \* rows of Products
    productPrices,      \* rows of ProductPrice
    productCompliance,  \* product ids that own a ProductCompliance row
    productImages,      \* rows of ProductImages
    userProducts,       \* rows of UserProducts
    nextProductId,      \* identity column of Products
    nextImageId,        \* identity column of ProductImages
    \* POST /api/products, PUT and DELETE /api/products/:id (one request)
    prReq               \* position, payload and locals of the request

prTables == <<products, productPrices, productCompliance, productImages,
              userProducts, nextProductId, nextImageId>>

prVars == <<prTables, prReq>>

VARIABLES
    \* the tables POST /createOrder writes; a row's id is its position
    coOrders,           \* rows of Orders
    coOrderItems,       \* rows of OrderItems
    coAddresses,        \* rows of DeliveryAddress
    coMappings,         \* rows of OrderDeliveryAddressMapping
    \* POST /createOrder (one request)
    coReq

coTables == <<coOrders, coOrderItems, coAddresses, coMappings>>
coVars == <<coTables, coReq>>

VARIABLES
    \* PUT /orders/:orderId, PUT /orders/:orderId/items/:orderItemId,
    \* PUT /delivery-addresses/:deliveryAddressId and
    \* POST /orders/:orderId/delivery-address (one request)
    upReq

upVars == <<upReq>>

VARIABLES
    \* PUT /business/:businessId: the TailorItemPrice table and one request
    tailorItemPrices, nextTailorItemPriceId, buReq

buVars == <<tailorItemPrices, nextTailorItemPriceId, buReq>>

VARIABLES
    \* authenticateToken: one request passing through the middleware
    auReq

auVars == <<auReq>>

VARIABLES
    \* the ids of the order items that exist, and one request to
    \* POST /orders/:orderId/items
    orderItemIds, oiReq

oiVars == <<orderItemIds, oiReq>>

vars == <<moVars, msVars, mbVars, tdVars, prVars, coVars, upVars, buVars, auVars, oiVars>>

notMo == <<msVars, mbVars, tdVars, prVars, coVars, upVars, buVars, auVars, oiVars>>
notMs == <<moVars, mbVars, tdVars, prVars, coVars, upVars, buVars, auVars, oiVars>>
notMb == <<moVars, msVars, tdVars, prVars, coVars, upVars, buVars, auVars, oiVars>>
notTd == <<moVars, msVars, mbVars, prVars, coVars, upVars, buVars, auVars, oiVars>>
notPr == <<moVars, msVars, mbVars, tdVars, coVars, upVars, buVars, auVars, oiVars>>
notCo == <<moVars, msVars, mbVars, tdVars, prVars, upVars, buVars, auVars, oiVars>>
notUp == <<moVars, msVars, mbVars, tdVars, prVars, coReq, buVars, auVars, oiVars>>
notBu == <<moVars, msVars, mbVars, tdVars, prVars, coVars, upVars, auVars, oiVars>>
notAu == <<moVars, msVars, mbVars, tdVars, prVars, coVars, upVars, buVars, oiVars>>
notOi == <<moVars, msVars, mbVars, tdVars, prVars, coVars, upVars, buVars, auVars>>

(***************************************************************************)
(* GET /my-orders                                                          *)
(***************************************************************************)
RoleNames == {"Admin", "Customer", "Seller", "Tailor", "MeasurementBoy",
              "Taylorseller"}

OrderIds == 1..MaxOrderId

\* A row of an orders query; src tells which query produced the object.
OrderRow(id, src) == [orderId |-> id, src |-> src]

TailorRowSeqs == SeqsUpTo({OrderRow(i, "tailor") : i \in OrderIds}, MaxRows)
ShopRowSeqs == SeqsUpTo({OrderRow(i, "shop") : i \in OrderIds}, MaxRows)

\* roleNames.includes('Tailor') / roleNames.includes('Seller')
isTailor(roleNames) == "Tailor" \in roleNames
isSeller(roleNames) == "Seller" \in roleNames

HasOrderRoleDropped(roleNames) == roleNames # {}

\* the guard of the second 403: the user holds Tailor or Seller
HasOrderRole(roleNames) == isTailor(roleNames) \/ isSeller(roleNames)

OrderIdsOf(rows) == {rows[i].orderId : i \in 1..Len(rows)}

\* sellerOrdersData.forEach(order => { if (!orderIds.has(..)) push, add })
RECURSIVE MergeSellerOrders(_, _)
MergeSellerOrders(ordersData, sellerOrdersData) ==
    IF sellerOrdersData = <<>> THEN ordersData
    ELSE LET order == Head(sellerOrdersData)
         IN  IF order.orderId \in OrderIdsOf(ordersData)
             THEN MergeSellerOrders(ordersData, Tail(sellerOrdersData))
             ELSE MergeSellerOrders(Append(ordersData, order),
                                    Tail(sellerOrdersData))

UniqueOrdersNoDedupe(ordersData) == ordersData

\* ordersData.forEach(order => { if (!seenOrderIds.has(..)) push, add })
RECURSIVE UniqueFrom(_, _)
UniqueFrom(uniqueOrders, rest) ==
    IF rest = <<>> THEN uniqueOrders
    ELSE IF Head(rest).orderId \in OrderIdsOf(uniqueOrders)
         THEN UniqueFrom(uniqueOrders, Tail(rest))
         ELSE UniqueFrom(Append(uniqueOrders, Head(rest)), Tail(rest))

UniqueOrders(ordersData) == UniqueFrom(<<>>, ordersData)

MoRespond(status) ==
    /\ moStatus' = status
    /\ moPc' = "done"

\* const userRoles = await GetUserRoles(userId), and the two 403 checks
MoGetUserRoles ==
    /\ moPc = "start"
    /\ moCalls' = Append(moCalls, "GetUserRoles")
    /\ \/ /\ MoRespond(500)
          /\ UNCHANGED <<moRolesFetched, moUserRoles>>
       \/ \E roleNames \in SUBSET RoleNames :
            /\ moRolesFetched' = TRUE
            /\ moUserRoles' = roleNames
            /\ IF roleNames = {} THEN MoRespond(403)
               ELSE IF ~HasOrderRole(roleNames) THEN MoRespond(403)
               ELSE moPc' = "business" /\ UNCHANGED moStatus
    /\ UNCHANGED <<moBusiness, moTailorRows, moShopRows, moOrdersData, moOrders>>
    /\ UNCHANGED notMo

\* const business = await GetBusinessByUserId({ UserId: userId })
MoGetBusinessByUserId ==
    /\ moPc = "business"
    /\ moCalls' = Append(moCalls, "GetBusinessByUserId")
    /\ \/ /\ MoRespond(500)
          /\ UNCHANGED moBusiness
       \/ /\ moBusiness' = 0
          /\ MoRespond(404)
       \/ /\ moBusiness' = 1
          /\ moPc' = IF isTailor(moUserRoles) THEN "tailor" ELSE "seller"
          /\ UNCHANGED moStatus
    /\ UNCHANGED <<moRolesFetched, moUserRoles, moTailorRows, moShopRows, moOrdersData, moOrders>>
    /\ UNCHANGED notMo

\* ordersData = await GetOrdersByTailorId(business.businessId, parameters)
MoGetOrdersByTailorId ==
    /\ moPc = "tailor"
    /\ moCalls' = Append(moCalls, "GetOrdersByTailorId")
    /\ \/ /\ MoRespond(500)
          /\ UNCHANGED <<moTailorRows, moOrdersData>>
       \/ \E rows \in TailorRowSeqs :
            /\ moTailorRows' = rows
            /\ moOrdersData' = rows
            /\ moPc' = IF isSeller(moUserRoles) THEN "seller" ELSE "items"
            /\ UNCHANGED moStatus
    /\ UNCHANGED <<moRolesFetched, moUserRoles, moBusiness, moShopRows, moOrders>>
    /\ UNCHANGED notMo

\* const sellerOrdersData = await GetOrdersByShopId(...), then the merge
MoGetOrdersByShopId ==
    /\ moPc = "seller"
    /\ moCalls' = Append(moCalls, "GetOrdersByShopId")
    /\ \/ /\ MoRespond(500)
          /\ UNCHANGED <<moShopRows, moOrdersData>>
       \/ \E rows \in ShopRowSeqs :
            /\ moShopRows' = rows
            /\ moOrdersData' = IF isTailor(moUserRoles)
                               THEN MergeSellerOrders(moOrdersData, rows)
                               ELSE rows
            /\ moPc' = "items"
            /\ UNCHANGED moStatus
    /\ UNCHANGED <<moRolesFetched, moUserRoles, moBusiness, moTailorRows, moOrders>>
    /\ UNCHANGED notMo

\* uniqueOrders, then Promise.all of GetOrderItemsByOrderId, then the response
MoGetOrderItems ==
    /\ moPc = "items"
    /\ LET uniqueOrders == UniqueOrders(moOrdersData)
       IN  /\ moCalls' = moCalls \o
                  [i \in 1..Len(uniqueOrders) |-> "GetOrderItemsByOrderId"]
           /\ \/ /\ uniqueOrders # <<>>
                 /\ MoRespond(500)
                 /\ UNCHANGED moOrders
              \/ /\ moOrders' = uniqueOrders
                 /\ MoRespond(200)
    /\ UNCHANGED <<moRolesFetched, moUserRoles, moBusiness, moTailorRows, moShopRows, moOrdersData>>
    /\ UNCHANGED notMo

MoInit ==
    /\ moPc = "start"
    /\ moRolesFetched = FALSE
    /\ moUserRoles = {}
    /\ moBusiness = 0
    /\ moTailorRows = <<>>
    /\ moShopRows = <<>>
    /\ moOrdersData = <<>>
    /\ moCalls = <<>>
    /\ moStatus = 0
    /\ moOrders = <<>>

MoNext ==
    \/ MoGetUserRoles
    \/ MoGetBusinessByUserId
    \/ MoGetOrdersByTailorId
    \/ MoGetOrdersByShopId
    \/ MoGetOrderItems


(***************************************************************************)
(* Claims about GET /my-orders                                             *)
(***************************************************************************)
NoRepeatedOrderId(orders) ==
    \A i, j \in 1..Len(orders) :
        orders[i].orderId = orders[j].orderId => i = j

\* C1: for a user holding both Tailor and Seller, the orders of the 200
\* response hold each orderId at most once, whatever repeats the two query
\* results contain, and an orderId returned by both queries is represented
\* by the row of the tailor query.
C1_MergedOrdersUniqueTailorFirst ==
    (moStatus = 200 /\ isTailor(moUserRoles) /\ isSeller(moUserRoles)) =>
        /\ NoRepeatedOrderId(moOrders)
        /\ \A id \in OrderIdsOf(moTailorRows) \cap OrderIdsOf(moShopRows) :
              /\ \E i \in 1..Len(moOrders) : moOrders[i].orderId = id
              /\ \A i \in 1..Len(moOrders) :
                    moOrders[i].orderId = id => moOrders[i].src = "tailor"

C1_Witness ==
    /\ moStatus = 200
    /\ isTailor(moUserRoles) /\ isSeller(moUserRoles)
    /\ OrderIdsOf(moTailorRows) \cap OrderIdsOf(moShopRows) # {}
    /\ Len(moTailorRows) > Cardinality(OrderIdsOf(moTailorRows))
    /\ Len(moOrders) = MaxOrderId

OrderQueryCalls ==
    {"GetBusinessByUserId", "GetOrdersByTailorId", "GetOrdersByShopId"}

\* C2: once GetUserRoles has returned a role set holding neither Tailor nor
\* Seller (the empty set included), the response is 403 and no business
\* lookup and no order query has been issued.
C2_NeitherRoleIs403 ==
    (moRolesFetched /\ moUserRoles \cap {"Tailor", "Seller"} = {}) =>
        /\ moPc = "done"
        /\ moStatus = 403
        /\ Range(moCalls) \cap OrderQueryCalls = {}

C2_Witness ==
    /\ moStatus = 403
    /\ moUserRoles = {"Admin", "Customer", "MeasurementBoy", "Taylorseller"}

(***************************************************************************)
(* POST /measurement-boy/submit-measurement                                *)
(***************************************************************************)
\* JSON null as a field value
JsNull == "null"

\* the field names a payload may carry, and String.prototype.toUpperCase
FieldNames == {"chest", "CHEST", "waist"}

\* the key as submitted
keepCase(k) == k

toUpperCase(k) ==
    CASE k = "chest" -> "CHEST"
      [] k = "CHEST" -> "CHEST"
      [] k = "waist" -> "WAIST"

FieldValues == {"", JsNull, "32"}

Fields == [key : FieldNames, value : FieldValues]

\* Object.entries(measurementFields): the keys of an object are distinct
FieldLists ==
    {f \in SeqsUpTo(Fields, MaxFields) :
        \A i, j \in 1..Len(f) : f[i].key = f[j].key => i = j}

\* the order items of the database and the order each belongs to
Items == {1, 2}
\* the id InsertOrderItem gives to the item a later request creates
NewItem == 3
AllItems == Items \cup {NewItem}
OrderOf(item) == 1
ItemsOfOrder(orderId) == {it \in orderItemIds : OrderOf(it) = orderId}

\* orderId / orderItemId as the body carries them; "" is an absent member
OrderIdInputs == {"", "1", "abc"}
OrderItemIdInputs == {"", "1", "2"}

\* isNaN(parseInt(s)) and parseInt(s) for the inputs above
isNaN(s) == s \notin {"1", "2"}
parseInt(s) == IF s = "1" THEN 1 ELSE 2

Payloads ==
    [measurements : {TRUE}, orderId : OrderIdInputs,
     orderItemId : OrderItemIdInputs, fields : FieldLists]
    \cup
    {[measurements |-> FALSE, orderId |-> "", orderItemId |-> "",
      fields |-> <<>>]}

\* role sets GetUserRoles returns for the submitting user
MsRoleSets == {{}, {"Tailor", "Seller"}, {"MeasurementBoy"}}

isMeasurementBoyAlways(roleNames) == TRUE

\* roleNames.includes('MeasurementBoy')
isMeasurementBoy(roleNames) == "MeasurementBoy" \in roleNames

IsEmptyValueNullOnly(v) == v = JsNull

\* measurementValue === null || === undefined || === ''
IsEmptyValue(v) == v = JsNull \/ v = ""

\* the keys CheckAllMeasurementsDone requires of every item of an order
RequiredKeys == {"CHEST", "WAIST"}

\* SELECT ... WHERE orderItemId = .. AND measurementKey = ..
MatchingRows(rows, orderItemId, measurementKey) ==
    {m \in rows : m.orderItemId = orderItemId
                  /\ m.measurementKey = measurementKey}

\* the aggregate of checkAllMeasurementsDone over the order's items
AllMeasurementsDone(rows, orderId) ==
    /\ ItemsOfOrder(orderId) # {}
    /\ \A it \in ItemsOfOrder(orderId) : \A k \in RequiredKeys :
          MatchingRows(rows, it, k) # {}

IdleRequest ==
    [pc |-> "idle", payload |-> CHOOSE p \in Payloads : ~p.measurements,
     userRoles |-> {}, roleNames |-> {}, i |-> 0, existingMeasurement |-> 0,
     insertedMeasurements |-> <<>>, errors |-> <<>>,
     allMeasurementsDone |-> FALSE, calls |-> <<>>, status |-> 0]

\* a database call of the request: the operation, the field it was given
\* (key "" for a call about the order) and whether it returned or threw
Call(op, key, value, result) ==
    [op |-> op, key |-> key, value |-> value, result |-> result]

Respond(q, status) == [q EXCEPT !.pc = "done", !.status = status]

\* index of the next field at or after "from" that the loop does not skip
RECURSIVE NextField(_, _)
NextField(fields, from) ==
    IF from > Len(fields) THEN from
    ELSE IF IsEmptyValue(fields[from].value) THEN NextField(fields, from + 1)
    ELSE from

AfterLoopNoEmptyCheck(q) ==
    IF q.payload.orderId # "" /\ ~isNaN(q.payload.orderId)
    THEN [q EXCEPT !.pc = "check"]
    ELSE Respond(q, 201)

AfterLoopNoCheck(q) ==
    IF q.insertedMeasurements = <<>> THEN Respond(q, 400)
    ELSE Respond(q, 201)

\* the code after the loop, up to the next await or the response
AfterLoop(q) ==
    IF q.insertedMeasurements = <<>> THEN Respond(q, 400)
    ELSE IF q.payload.orderId # "" /\ ~isNaN(q.payload.orderId)
         THEN [q EXCEPT !.pc = "check"]
         ELSE Respond(q, 201)

\* continue the loop at field "from"
Continue(q, from) ==
    LET j == NextField(q.payload.fields, from)
    IN  IF j <= Len(q.payload.fields)
        THEN [q EXCEPT !.pc = "lookup", !.i = j, !.existingMeasurement = 0]
        ELSE AfterLoop([q EXCEPT !.i = j])

CurrentField(q) == q.payload.fields[q.i]

\* the catch block of one field
FieldFailedAborts(q) ==
    Respond([q EXCEPT !.errors = Append(@, CurrentField(q).key)], 500)
FieldFailed(q) ==
    Continue([q EXCEPT !.errors = Append(@, CurrentField(q).key)], q.i + 1)

FieldSaved(q, id, action) ==
    Continue([q EXCEPT !.insertedMeasurements = Append(@,
                 [measurementId |-> id,
                  measurementKey |-> toUpperCase(CurrentField(q).key),
                  measurementValue |-> CurrentField(q).value,
                  action |-> action])],
             q.i + 1)

Log(q, op, result) ==
    [q EXCEPT !.calls = Append(@, Call(op, CurrentField(q).key,
                                        CurrentField(q).value, result))]

LogOrder(q, op, result) ==
    [q EXCEPT !.calls = Append(@, Call(op, "", "", result))]

\* the request arrives; the checks before the first await
MsReceive(r, payloads) ==
    /\ msReq[r].pc = "idle"
    /\ msSubmitted < MaxSubmissions
    /\ msSubmitted' = msSubmitted + 1
    /\ \E payload \in payloads, userRoles \in MsRoleSets :
         LET q == [IdleRequest EXCEPT !.payload = payload,
                                      !.userRoles = userRoles]
         IN  msReq' = [msReq EXCEPT ![r] =
                 IF ~payload.measurements THEN Respond(q, 400)
                 ELSE IF payload.orderItemId = "" THEN Respond(q, 400)
                 ELSE [q EXCEPT !.pc = "roles"]]
    /\ UNCHANGED <<measurements, nextMeasurementId, isMeasurementDone>>
    /\ UNCHANGED notMs

\* await GetUserRoles(userId), the role check, the field-count check, and
\* the loop up to its first await
MsGetUserRoles(r) ==
    /\ msReq[r].pc = "roles"
    /\ LET q0 == LogOrder(msReq[r], "GetUserRoles", "threw")
           q == LogOrder(msReq[r], "GetUserRoles", "ok")
       IN  \/ msReq' = [msReq EXCEPT ![r] = Respond(q0, 500)]
           \/ LET roleNames == q.userRoles
                   q1 == [q EXCEPT !.roleNames = roleNames]
               IN  msReq' = [msReq EXCEPT ![r] =
                        IF ~isMeasurementBoy(roleNames) THEN Respond(q1, 403)
                        ELSE IF Len(q.payload.fields) = 0 THEN Respond(q1, 400)
                        ELSE Continue(q1, 1)]
    /\ UNCHANGED <<measurements, nextMeasurementId, isMeasurementDone,
                   msSubmitted>>
    /\ UNCHANGED notMs

\* await GetMeasurementByOrderItemIdAndKey(parsedOrderItemId, upperCaseKey)
MsGetMeasurement(r) ==
    /\ msReq[r].pc = "lookup"
    /\ LET q0 == Log(msReq[r], "GetMeasurementByOrderItemIdAndKey", "threw")
           q == Log(msReq[r], "GetMeasurementByOrderItemIdAndKey", "ok")
           found == MatchingRows(measurements, parseInt(q.payload.orderItemId),
                                 toUpperCase(CurrentField(q).key))
       IN  \/ msReq' = [msReq EXCEPT ![r] = FieldFailed(q0)]
           \/ /\ found = {}
              /\ msReq' = [msReq EXCEPT ![r] = [q EXCEPT !.pc = "insert"]]
           \/ \E m \in found :
                msReq' = [msReq EXCEPT ![r] =
                    [q EXCEPT !.pc = "update",
                              !.existingMeasurement = m.measurementId]]
    /\ UNCHANGED <<measurements, nextMeasurementId, isMeasurementDone,
                   msSubmitted>>
    /\ UNCHANGED notMs

\* await UpdateMeasurement(existingMeasurement.measurementId, updateData)
MsUpdateMeasurement(r) ==
    /\ msReq[r].pc = "update"
    /\ LET q0 == Log(msReq[r], "UpdateMeasurement", "threw")
           q == Log(msReq[r], "UpdateMeasurement", "ok")
       IN  \/ /\ msReq' = [msReq EXCEPT ![r] = FieldFailed(q0)]
              /\ UNCHANGED measurements
           \/ /\ measurements' =
                    {IF m.measurementId = q.existingMeasurement
                     THEN [m EXCEPT !.measurementValue = CurrentField(q).value]
                     ELSE m : m \in measurements}
              /\ msReq' = [msReq EXCEPT ![r] =
                    FieldSaved(q, q.existingMeasurement, "updated")]
    /\ UNCHANGED <<nextMeasurementId, isMeasurementDone, msSubmitted>>
    /\ UNCHANGED notMs

\* await InsertMeasurement(measurementData)
MsInsertMeasurement(r) ==
    /\ msReq[r].pc = "insert"
    /\ LET q0 == Log(msReq[r], "InsertMeasurement", "threw")
           q == Log(msReq[r], "InsertMeasurement", "ok")
       IN  \/ /\ msReq' = [msReq EXCEPT ![r] = FieldFailed(q0)]
              /\ UNCHANGED <<measurements, nextMeasurementId>>
           \/ /\ measurements' = measurements \cup
                    {[measurementId |-> nextMeasurementId,
                      orderItemId |-> parseInt(q.payload.orderItemId),
                      measurementKey |-> toUpperCase(CurrentField(q).key),
                      measurementValue |-> CurrentField(q).value]}
              /\ nextMeasurementId' = nextMeasurementId + 1
              /\ msReq' = [msReq EXCEPT ![r] =
                    FieldSaved(q, nextMeasurementId, "inserted")]
    /\ UNCHANGED <<isMeasurementDone, msSubmitted>>
    /\ UNCHANGED notMs

\* the catch around the completion check: the error is logged and the
\* handler goes on to its 201 answer
CompletionFailedIs500(q) == Respond(q, 500)
CompletionFailed(q) == Respond(q, 201)

AfterCheckAlwaysMarks(q, done) ==
    [q EXCEPT !.allMeasurementsDone = done, !.pc = "mark"]

\* allMeasurementsDone = <the result>; if (allMeasurementsDone) { update }
AfterCheck(q, done) ==
    IF done THEN [q EXCEPT !.allMeasurementsDone = TRUE, !.pc = "mark"]
    ELSE Respond(q, 201)

\* allMeasurementsDone = await CheckAllMeasurementsDone(parsedOrderId)
MsCheckAllMeasurementsDone(r) ==
    /\ msReq[r].pc = "check"
    /\ LET q0 == LogOrder(msReq[r], "CheckAllMeasurementsDone", "threw")
           q == LogOrder(msReq[r], "CheckAllMeasurementsDone", "ok")
           done == AllMeasurementsDone(measurements, parseInt(q.payload.orderId))
       IN  \/ msReq' = [msReq EXCEPT ![r] = CompletionFailed(q0)]
           \/ msReq' = [msReq EXCEPT ![r] = AfterCheck(q, done)]
    /\ UNCHANGED <<measurements, nextMeasurementId, isMeasurementDone,
                   msSubmitted>>
    /\ UNCHANGED notMs

\* await UpdateOrderItemsMeasurementDone(parsedOrderId)
MsUpdateOrderItemsMeasurementDone(r) ==
    /\ msReq[r].pc = "mark"
    /\ LET q0 == LogOrder(msReq[r], "UpdateOrderItemsMeasurementDone", "threw")
           q == LogOrder(msReq[r], "UpdateOrderItemsMeasurementDone", "ok")
       IN  \/ /\ msReq' = [msReq EXCEPT ![r] = CompletionFailed(q0)]
              /\ UNCHANGED isMeasurementDone
           \/ /\ msReq' = [msReq EXCEPT ![r] = Respond(q, 201)]
              /\ isMeasurementDone' =
                   [it \in AllItems |->
                       IF it \in ItemsOfOrder(parseInt(q.payload.orderId))
                       THEN TRUE ELSE isMeasurementDone[it]]
    /\ UNCHANGED <<measurements, nextMeasurementId, msSubmitted>>
    /\ UNCHANGED notMs

\* the handler has returned: its response is sent and its locals are gone
MsReturn(r) ==
    /\ msReq[r].pc = "done"
    /\ msReq' = [msReq EXCEPT ![r] = IdleRequest]
    /\ UNCHANGED <<measurements, nextMeasurementId, isMeasurementDone,
                   msSubmitted>>
    /\ UNCHANGED notMs

(***************************************************************************)
(* GET /measurement-boy/orders                                             *)
(***************************************************************************)
\* req.query.isOrderMeasurementDone ("" when absent) and the filter made of
\* it: none, or the parsed number
MbQueries == {"", "1", "abc"}
MbFilter(query) ==
    IF query = "" \/ isNaN(query) THEN <<>> ELSE <<parseInt(query)>>

MbIdle ==
    [pc |-> "idle", userRoles |-> {}, query |-> "", roleNames |-> {},
     calls |-> <<>>, status |-> 0, orders |-> {}]

MbLog(q, op, result) ==
    [q EXCEPT !.calls = Append(@, Call(op, "", "", result))]

MbRespond(q, status) == [q EXCEPT !.pc = "done", !.status = status]

\* the rows GetOrdersByMeasurementBoyId returns: the orders, each with the
\* measurements of its items, that pass the isOrderMeasurementDone filter
OrdersOfMeasurementBoy(filter) ==
    {[orderId |-> o,
      measurements |-> {m \in measurements : OrderOf(m.orderItemId) = o}] :
        o \in {o \in {OrderOf(it) : it \in orderItemIds} :
                  \/ filter = <<>>
                  \/ (filter = <<1>>) =
                       (\A it \in ItemsOfOrder(o) : isMeasurementDone[it])}}

\* the request arrives; the query parameter is parsed
MbReceive ==
    /\ mbReq.pc = "idle"
    /\ \E query \in MbQueries, userRoles \in MsRoleSets :
          mbReq' = [MbIdle EXCEPT !.pc = "roles", !.query = query,
                                  !.userRoles = userRoles]
    /\ UNCHANGED notMb

\* await GetUserRoles(userId) and the role check
MbGetUserRoles ==
    /\ mbReq.pc = "roles"
    /\ LET q0 == MbLog(mbReq, "GetUserRoles", "threw")
           q == [MbLog(mbReq, "GetUserRoles", "ok") EXCEPT
                    !.roleNames = mbReq.userRoles]
       IN  \/ mbReq' = MbRespond(q0, 500)
           \/ mbReq' = IF ~isMeasurementBoy(q.roleNames)
                       THEN MbRespond(q, 403)
                       ELSE [q EXCEPT !.pc = "orders"]
    /\ UNCHANGED notMb

\* await GetOrdersByMeasurementBoyId(userId, isOrderMeasurementDoneFilter)
MbGetOrdersByMeasurementBoyId ==
    /\ mbReq.pc = "orders"
    /\ LET q0 == MbLog(mbReq, "GetOrdersByMeasurementBoyId", "threw")
           q == MbLog(mbReq, "GetOrdersByMeasurementBoyId", "ok")
       IN  \/ mbReq' = MbRespond(q0, 500)
           \/ mbReq' = MbRespond(
                  [q EXCEPT !.orders =
                      OrdersOfMeasurementBoy(MbFilter(q.query))], 200)
    /\ UNCHANGED notMb

\* the handler has returned
MbReturn ==
    /\ mbReq.pc = "done"
    /\ mbReq' = MbIdle
    /\ UNCHANGED notMb

MbInit == mbReq = MbIdle

Requests == {1, 2}

MsInit ==
    /\ measurements = {}
    /\ nextMeasurementId = 1
    /\ isMeasurementDone = [it \in AllItems |-> FALSE]
    /\ msReq = [r \in Requests |-> IdleRequest]
    /\ msSubmitted = 0

\* one request after the other
MsNext ==
    \/ mbReq.pc = "idle" /\ MsReceive(1, Payloads)
    \/ MsGetUserRoles(1)
    \/ MsGetMeasurement(1)
    \/ MsUpdateMeasurement(1)
    \/ MsInsertMeasurement(1)
    \/ MsCheckAllMeasurementsDone(1)
    \/ MsUpdateOrderItemsMeasurementDone(1)
    \/ MsReturn(1)
    \/ msReq[1].pc = "idle" /\ MbReceive
    \/ MbGetUserRoles
    \/ MbGetOrdersByMeasurementBoyId
    \/ MbReturn

\* the payloads of the concurrent requests: every field carries a value
RacePayloads ==
    {p \in Payloads :
        /\ p.measurements /\ p.orderId = "1" /\ p.orderItemId # ""
        /\ \A n \in 1..Len(p.fields) : p.fields[n].value = "32"}

\* requests in flight together: between two awaits of one request any
\* statement of the other may run
MsRaceNext ==
    \E r \in Requests :
        \/ MsReceive(r, RacePayloads)
        \/ MsGetUserRoles(r)
        \/ MsGetMeasurement(r)
        \/ MsUpdateMeasurement(r)
        \/ MsInsertMeasurement(r)
        \/ MsCheckAllMeasurementsDone(r)
        \/ MsUpdateOrderItemsMeasurementDone(r)
        \/ MsReturn(r)

(***************************************************************************)
(* Claims about POST /measurement-boy/submit-measurement                   *)
(***************************************************************************)
WriteOps == {"InsertMeasurement", "UpdateMeasurement"}

CallsOf(q, ops) == {n \in 1..Len(q.calls) : q.calls[n].op \in ops}

\* the payload carries the field and its value is not empty
SubmittedNonEmpty(q, key, value) ==
    /\ value # "" /\ value # JsNull
    /\ \E n \in 1..Len(q.payload.fields) :
          q.payload.fields[n] = [key |-> key, value |-> value]

\* C3: every InsertMeasurement and UpdateMeasurement call of a submission is
\* for a field the payload carries with a value other than '' and null, and
\* no Measurement row holds '' or null as its value.
C3_EmptyFieldNeverWritten ==
    /\ \A r \in Requests : \A n \in CallsOf(msReq[r], WriteOps) :
          SubmittedNonEmpty(msReq[r], msReq[r].calls[n].key,
                            msReq[r].calls[n].value)
    /\ \A m \in measurements :
          m.measurementValue # "" /\ m.measurementValue # JsNull

C3_Witness ==
    \E r \in Requests :
        /\ msReq[r].status = 201
        /\ msReq[r].payload.fields =
               <<[key |-> "chest", value |-> ""],
                 [key |-> "waist", value |-> "32"]>>
        /\ Cardinality(CallsOf(msReq[r], WriteOps)) = 1

Threw(q, ops) == \E n \in CallsOf(q, ops) : q.calls[n].result = "threw"

MarkOps == {"UpdateOrderItemsMeasurementDone"}

\* the order the submitted item belongs to
OrderOfSubmission(q) == OrderOf(parseInt(q.payload.orderItemId))

C9_OneRowPerItemAndKey ==
    \A m1, m2 \in measurements :
        (m1.orderItemId = m2.orderItemId
         /\ m1.measurementKey = m2.measurementKey)
        => m1.measurementId = m2.measurementId

OkWrites(q) ==
    SelectSeq(q.calls, LAMBDA c : c.op \in WriteOps /\ c.result = "ok")

\* the rows the lookup of the field the request is at would return
RowsOfCurrentField(q) ==
    MatchingRows(measurements, parseInt(q.payload.orderItemId),
                 toUpperCase(CurrentField(q).key))

\* C11: a submission is about to call InsertMeasurement for a field only
\* when no Measurement row exists for (orderItemId, uppercased key), and
\* about to call UpdateMeasurement only on the existing row for that pair;
\* every write that succeeded is reported in order, an UpdateMeasurement as
\* "updated" and an InsertMeasurement as "inserted", under the uppercased
\* key.
C11_UpdateIffRowExists ==
    \A r \in Requests :
        LET q == msReq[r]
        IN  /\ q.pc = "insert" => RowsOfCurrentField(q) = {}
            /\ q.pc = "update" =>
                  \E m \in RowsOfCurrentField(q) :
                      m.measurementId = q.existingMeasurement
            /\ Len(q.insertedMeasurements) = Len(OkWrites(q))
            /\ \A k \in 1..Len(OkWrites(q)) :
                  /\ q.insertedMeasurements[k].measurementKey =
                        toUpperCase(OkWrites(q)[k].key)
                  /\ q.insertedMeasurements[k].action =
                        (IF OkWrites(q)[k].op = "UpdateMeasurement"
                         THEN "updated" ELSE "inserted")

FieldOps == WriteOps \cup {"GetMeasurementByOrderItemIdAndKey"}

\* the keys of the fields a request submitted with a value, in order
NonEmptyKeys(q) ==
    LET RECURSIVE keys(_)
        keys(n) ==
            IF n > Len(q.payload.fields) THEN <<>>
            ELSE IF q.payload.fields[n].value \in {"", JsNull}
                 THEN keys(n + 1)
                 ELSE <<q.payload.fields[n].key>> \o keys(n + 1)
    IN  keys(1)

\* the keys of the calls of a request, restricted to some operations and
\* results
KeysOfCalls(q, ops, results) ==
    LET picked == SelectSeq(q.calls,
                     LAMBDA c : c.op \in ops /\ c.result \in results)
    IN  [k \in 1..Len(picked) |-> picked[k].key]

\* the request passed the role and field-count checks and has answered
LoopAnswered(q) ==
    /\ q.pc = "done"
    /\ "MeasurementBoy" \in q.roleNames
    /\ Len(q.payload.fields) > 0

\* C12: the errors list of a submission holds, in order, the key of every
\* field whose lookup, insert or update threw; a submission that got past
\* the role check looked up every non-empty field of its payload, whichever
\* of the earlier fields failed; and when at least one field was saved the
\* answer is 201, carrying the saved measurements together with the errors.
C12_FieldFailuresCollected ==
    \A r \in Requests :
        LET q == msReq[r]
        IN  /\ q.errors = KeysOfCalls(q, FieldOps, {"threw"})
            /\ LoopAnswered(q) =>
                  /\ KeysOfCalls(q, {"GetMeasurementByOrderItemIdAndKey"},
                                 {"ok", "threw"}) = NonEmptyKeys(q)
                  /\ q.insertedMeasurements # <<>> => q.status = 201
                  /\ q.insertedMeasurements = <<>> => q.status = 400

C12_Witness ==
    \E r \in Requests :
        /\ msReq[r].status = 201
        /\ Len(msReq[r].payload.fields) = 2
        /\ msReq[r].errors = <<msReq[r].payload.fields[1].key>>
        /\ Len(msReq[r].insertedMeasurements) = 1
        /\ msReq[r].insertedMeasurements[1].measurementKey =
              toUpperCase(msReq[r].payload.fields[2].key)

CompletionOps == {"CheckAllMeasurementsDone", "UpdateOrderItemsMeasurementDone"}

\* the row a reported measurement stands for is in the table
Stored(q, saved) ==
    \E m \in measurements :
        /\ m.measurementId = saved.measurementId
        /\ m.orderItemId = parseInt(q.payload.orderItemId)
        /\ m.measurementKey = saved.measurementKey

\* C13: a submission whose CheckAllMeasurementsDone or
\* UpdateOrderItemsMeasurementDone call threw answers 201, and every
\* Measurement row the request reported as saved is still in the table.
C13_CompletionFailureStill201 ==
    \A r \in Requests :
        LET q == msReq[r]
        IN  Threw(q, CompletionOps) =>
                /\ q.pc = "done"
                /\ q.status = 201
                /\ q.insertedMeasurements # <<>>
                /\ \A k \in 1..Len(q.insertedMeasurements) :
                      Stored(q, q.insertedMeasurements[k])

C13_Witness ==
    \E r \in Requests :
        /\ Threw(msReq[r], {"UpdateOrderItemsMeasurementDone"})
        /\ msReq[r].status = 201
        /\ Len(msReq[r].insertedMeasurements) = 2
        /\ \A it \in Items : ~isMeasurementDone[it]

\* the calls that read or write Measurement rows or mark order items
MeasurementOps == FieldOps \cup CompletionOps \cup {"GetOrdersByMeasurementBoyId"}
OpsOf(q) == {q.calls[k].op : k \in 1..Len(q.calls)}
LacksRole(q) == q.pc # "idle" /\ "MeasurementBoy" \notin q.userRoles
RolesThrew(q) ==
    \E k \in 1..Len(q.calls) :
        q.calls[k].op = "GetUserRoles" /\ q.calls[k].result = "threw"
BodyIncomplete(q) == ~q.payload.measurements \/ q.payload.orderItemId = ""

\* C14 as stated: every request to the two measurement endpoints by a caller
\* without the MeasurementBoy role is answered 403 and has read or written
\* no Measurement row and marked no order item.
C14_AsStated ==
    /\ \A r \in Requests :
          LacksRole(msReq[r]) =>
              /\ OpsOf(msReq[r]) \cap MeasurementOps = {}
              /\ msReq[r].pc = "done" => msReq[r].status = 403
    /\ LacksRole(mbReq) =>
          /\ OpsOf(mbReq) \cap MeasurementOps = {}
          /\ mbReq.pc = "done" => mbReq.status = 403

\* C14 amended: a request by a caller without the MeasurementBoy role issues
\* no call other than GetUserRoles in any state, so it reads and writes no
\* Measurement row and marks no order item; its answer is 403, except that
\* submit-measurement answers 400 without any database call when
\* measurements or orderItemId is missing, and either endpoint answers 500
\* when GetUserRoles throws.
C14_NoRoleNoMeasurementAccess ==
    /\ \A r \in Requests :
          LET q == msReq[r]
          IN  LacksRole(q) =>
                /\ OpsOf(q) \subseteq {"GetUserRoles"}
                /\ q.insertedMeasurements = <<>>
                /\ q.pc = "done" =>
                      q.status = (IF BodyIncomplete(q) THEN 400
                                  ELSE IF RolesThrew(q) THEN 500 ELSE 403)
                /\ BodyIncomplete(q) => q.calls = <<>>
    /\ LacksRole(mbReq) =>
          /\ OpsOf(mbReq) \subseteq {"GetUserRoles"}
          /\ mbReq.orders = {}
          /\ mbReq.pc = "done" =>
                mbReq.status = (IF RolesThrew(mbReq) THEN 500 ELSE 403)

C14_Witness ==
    /\ msReq[1].pc = "done"
    /\ msReq[1].userRoles = {"Tailor", "Seller"}
    /\ msReq[1].payload.orderItemId = "1"
    /\ Len(msReq[1].payload.fields) = 2
    /\ msReq[1].status = 403
    /\ measurements # {}

\* the calls of a request with a given operation and result
MsCalled(q, op, result) ==
    \E k \in 1..Len(q.calls) : q.calls[k].op = op /\ q.calls[k].result = result
MsInvoked(q, op) == MsCalled(q, op, "ok") \/ MsCalled(q, op, "threw")

\* C26: UpdateOrderItemsMeasurementDone is invoked (the request is at the
\* call or has made it) only in a request whose orderId is present and
\* numeric, that saved at least one measurement and whose
\* CheckAllMeasurementsDone returned true; the allMeasurementsDone flag of
\* the response is true only if the check returned true in that request.
C26_MarkOnlyAfterTrueCheck ==
    \A r \in Requests :
        LET q == msReq[r]
            marking == q.pc = "mark"
                       \/ MsInvoked(q, "UpdateOrderItemsMeasurementDone")
        IN  /\ marking =>
                  /\ q.payload.orderId \in {"1", "2"}
                  /\ q.insertedMeasurements # <<>>
                  /\ MsCalled(q, "CheckAllMeasurementsDone", "ok")
                  /\ ~MsCalled(q, "CheckAllMeasurementsDone", "threw")
                  /\ q.allMeasurementsDone
            /\ q.allMeasurementsDone =>
                  /\ MsCalled(q, "CheckAllMeasurementsDone", "ok")
                  /\ AllMeasurementsDone(measurements,
                                         parseInt(q.payload.orderId))

\* a submission whose check returned true has marked the items
C26_Witness ==
    /\ msReq[1].pc = "done"
    /\ msReq[1].status = 201
    /\ msReq[1].allMeasurementsDone
    /\ MsCalled(msReq[1], "UpdateOrderItemsMeasurementDone", "ok")
    /\ isMeasurementDone[1] /\ isMeasurementDone[2]

\* the submitted fields, in order, are each accounted for once: an empty one
\* by nothing, any other by the head of the measurements list or of the
\* errors list
RECURSIVE AccountedOnce(_, _, _)
AccountedOnce(fields, saved, errors) ==
    IF fields = <<>> THEN saved = <<>> /\ errors = <<>>
    ELSE IF Head(fields).value \in {"", JsNull}
         THEN AccountedOnce(Tail(fields), saved, errors)
    ELSE \/ /\ saved # <<>>
            /\ Head(saved).measurementKey = toUpperCase(Head(fields).key)
            /\ Head(saved).measurementValue = Head(fields).value
            /\ AccountedOnce(Tail(fields), Tail(saved), errors)
         \/ /\ errors # <<>>
            /\ Head(errors) = Head(fields).key
            /\ AccountedOnce(Tail(fields), saved, Tail(errors))

\* C27: in every 201 response each submitted non-empty field appears in
\* exactly one of the measurements list and the errors list, empty fields
\* appear in neither, and totalMeasurements, the length of the measurements
\* list, is the number of non-empty fields less the number of errors.
C27_EveryFieldAccountedOnce ==
    \A r \in Requests :
        LET q == msReq[r]
        IN  (q.pc = "done" /\ q.status = 201) =>
                /\ AccountedOnce(q.payload.fields, q.insertedMeasurements,
                                 q.errors)
                /\ Len(q.insertedMeasurements) + Len(q.errors)
                      = Len(NonEmptyKeys(q))

\* a 201 for a submission of an empty field followed by a saved one
C27_Witness ==
    /\ msReq[1].pc = "done"
    /\ msReq[1].status = 201
    /\ Len(msReq[1].payload.fields) = 2
    /\ msReq[1].payload.fields[1].value = ""
    /\ Len(msReq[1].insertedMeasurements) = 1
    /\ msReq[1].errors = <<>>

\* the request got past the role check and saved nothing
NothingSaved(q) ==
    /\ q.pc = "done"
    /\ MsCalled(q, "GetUserRoles", "ok")
    /\ "MeasurementBoy" \in q.userRoles
    /\ q.insertedMeasurements = <<>>

\* C29: a submission that saved no field (every field empty, or every
\* field's lookup or write failed) is answered 400 with the collected
\* errors, and calls neither CheckAllMeasurementsDone nor
\* UpdateOrderItemsMeasurementDone.
C29_NothingSavedIs400 ==
    \A r \in Requests :
        LET q == msReq[r]
        IN  NothingSaved(q) =>
                /\ q.status = 400
                /\ Len(q.errors) = Len(NonEmptyKeys(q))
                /\ \A k \in 1..Len(q.errors) : q.errors[k] = NonEmptyKeys(q)[k]
                /\ \A op \in CompletionOps : ~MsInvoked(q, op)

\* both fields of a submission with an orderId failed
C29_Witness ==
    /\ NothingSaved(msReq[1])
    /\ msReq[1].payload.orderId = "1"
    /\ Len(msReq[1].errors) = 2
    /\ msReq[1].status = 400

(***************************************************************************)
(* Submissions with two fields that differ only by letter case             *)
(***************************************************************************)
CaseValues == {"32", "34"}
CasePairs ==
    {<<[key |-> k1, value |-> v1], [key |-> k2, value |-> v2]>> :
        <<k1, k2>> \in {<<"chest", "CHEST">>, <<"CHEST", "chest">>},
        <<v1, v2>> \in CaseValues \X CaseValues}
\* the two spellings of the chest, alone or followed by the waist
CaseFieldLists ==
    CasePairs \cup {Append(f, [key |-> "waist", value |-> "32"]) : f \in CasePairs}
CasePayloads ==
    [measurements : {TRUE}, orderId : {"", "1"}, orderItemId : {"1", "2"},
     fields : CaseFieldLists]

\* submissions of such fields, one after the other
MsCaseNext ==
    \/ MsReceive(1, CasePayloads)
    \/ MsGetUserRoles(1)
    \/ MsGetMeasurement(1)
    \/ MsUpdateMeasurement(1)
    \/ MsInsertMeasurement(1)
    \/ MsCheckAllMeasurementsDone(1)
    \/ MsUpdateOrderItemsMeasurementDone(1)
    \/ MsReturn(1)

\* two such submissions for one item in flight together
MsCaseRaceNext ==
    \E r \in Requests :
        \/ MsReceive(r, {p \in CasePayloads : /\ p.orderItemId = "1"
                                              /\ p.orderId = "1"
                                              /\ Len(p.fields) = 2})
        \/ MsGetUserRoles(r)
        \/ MsGetMeasurement(r)
        \/ MsUpdateMeasurement(r)
        \/ MsInsertMeasurement(r)
        \/ MsCheckAllMeasurementsDone(r)
        \/ MsUpdateOrderItemsMeasurementDone(r)
        \/ MsReturn(r)

\* a submission of the two spellings of the chest
CaseAnswered(q) == LoopAnswered(q) /\ Len(q.payload.fields) >= 2
\* neither spelling is in the errors list
BothSaved(q) ==
    \A n \in 1..Len(q.errors) : q.errors[n] \notin {"chest", "CHEST"}

\* the rows stored for the chest of the item of a submission
ChestRows(q) ==
    {m \in measurements : /\ m.orderItemId = parseInt(q.payload.orderItemId)
                          /\ m.measurementKey = "CHEST"}
\* the position in the call log of the last call about a field
LastCallOf(q, key) ==
    CHOOSE k \in 1..Len(q.calls) :
        /\ q.calls[k].key = key
        /\ \A j \in 1..Len(q.calls) : q.calls[j].key = key => j <= k
FirstCallOf(q, key) ==
    CHOOSE k \in 1..Len(q.calls) :
        /\ q.calls[k].key = key
        /\ \A j \in 1..Len(q.calls) : q.calls[j].key = key => k <= j
\* both spellings reported under the one key, the first inserted or updated
\* and the second updated, so that the submission inserted at most one row
SecondIsUpdate(q) ==
    /\ Len(q.insertedMeasurements) >= 2
    /\ q.insertedMeasurements[1].action \in {"inserted", "updated"}
    /\ q.insertedMeasurements[2].action = "updated"
    /\ q.insertedMeasurements[1].measurementKey = "CHEST"
    /\ q.insertedMeasurements[2].measurementKey = "CHEST"
    /\ Cardinality({k \in 1..Len(q.calls) :
                       q.calls[k] \in {Call("InsertMeasurement", f.key,
                                            f.value, "ok") :
                                           f \in {q.payload.fields[1],
                                                  q.payload.fields[2]}}}) <= 1
\* one row for the key, holding the second field's value, written by both
\* fields
OneRowWithLaterValue(q) ==
    /\ Cardinality(ChestRows(q)) = 1
    /\ \A m \in ChestRows(q) :
          m.measurementValue = q.payload.fields[2].value
    /\ SecondIsUpdate(q)
    /\ q.insertedMeasurements[1].measurementId
          = q.insertedMeasurements[2].measurementId
\* the fields are processed one after the other: every call about the first
\* precedes every call about the second
OneAfterTheOther(q) ==
    LastCallOf(q, q.payload.fields[1].key)
        < FirstCallOf(q, q.payload.fields[2].key)

\* with submissions in flight together, what remains of C28: the order of
\* the two fields and the second being an update
C28_UnderRace ==
    \A r \in Requests :
        LET q == msReq[r]
        IN  /\ CaseAnswered(q) => OneAfterTheOther(q)
            /\ (CaseAnswered(q) /\ BothSaved(q)) => SecondIsUpdate(q)

OiIdle == [pc |-> "idle", orderId |-> 0, calls |-> <<>>, status |-> 0]

OiLog(q, op, result) ==
    [q EXCEPT !.calls = Append(@, [op |-> op, result |-> result])]

OiRespond(q, status) == [q EXCEPT !.pc = "done", !.status = status]

\* the request arrives for an order; orderId is a path parameter
OiReceive ==
    /\ oiReq.pc = "idle"
    /\ NewItem \notin orderItemIds
    /\ oiReq' = [OiIdle EXCEPT !.pc = "InsertOrderItem",
                               !.orderId = OrderOf(NewItem)]
    /\ UNCHANGED orderItemIds
    /\ UNCHANGED notOi

\* const result = await InsertOrderItem(orderItemData)
OiInsertOrderItem ==
    /\ oiReq.pc = "InsertOrderItem"
    /\ \/ /\ oiReq' = OiRespond(OiLog(oiReq, "InsertOrderItem", "threw"), 500)
          /\ UNCHANGED orderItemIds
       \/ /\ orderItemIds' = orderItemIds \cup {NewItem}
          /\ oiReq' = [OiLog(oiReq, "InsertOrderItem", "ok") EXCEPT
                          !.pc = "GetOrderItemsByOrderId"]
    /\ UNCHANGED notOi

\* const orderItems = await GetOrderItemsByOrderId(orderId) and the 201
OiGetOrderItemsByOrderId ==
    /\ oiReq.pc = "GetOrderItemsByOrderId"
    /\ \/ oiReq' = OiRespond(
                      OiLog(oiReq, "GetOrderItemsByOrderId", "threw"), 500)
       \/ oiReq' = OiRespond(OiLog(oiReq, "GetOrderItemsByOrderId", "ok"), 201)
    /\ UNCHANGED orderItemIds
    /\ UNCHANGED notOi

OiInit ==
    /\ orderItemIds = Items
    /\ oiReq = OiIdle

OiNext ==
    \/ OiReceive
    \/ OiInsertOrderItem
    \/ OiGetOrderItemsByOrderId

\* measurement submissions one after the other, with an order item created
\* at any moment
MsItemsNext ==
    \/ MsNext
    \/ OiNext

(***************************************************************************)
(* Claims about submissions and order item creation                        *)
(***************************************************************************)
\* C25: under any interleaving of measurement submissions with order item
\* creation, every order item with isMeasurementDone = true has all its
\* required measurements: the mark never reaches an item that was added
\* between CheckAllMeasurementsDone and UpdateOrderItemsMeasurementDone.
C25_MarkedItemsAreMeasured ==
    \A it \in orderItemIds :
        isMeasurementDone[it] =>
            \A k \in RequiredKeys : MatchingRows(measurements, it, k) # {}

(***************************************************************************)
(* POST /tailor-date-availability                                          *)
(***************************************************************************)
TdRequests == 1..MaxTdRequests

\* body members; 0 and "" stand for an absent (falsy) businessId and date,
\* JsNull for an isClosed that is undefined or null
BusinessIdInputs == {0, 1}
DateInputs == {"", "2026-01-01", "2026-01-02"}
IsClosedInputs == {JsNull, "true", "false"}

TdPayloads ==
    [businessId : BusinessIdInputs, date : DateInputs,
     isClosed : IsClosedInputs]

\* SELECT ... WHERE BusinessId = .. AND Date = ..
AvailabilityRows(rows, businessId, date) ==
    {a \in rows : a.BusinessId = businessId /\ a.Date = date}

TdIdle ==
    [pc |-> "idle", payload |-> [businessId |-> 0, date |-> "",
                                 isClosed |-> JsNull],
     rowsAtStart |-> 0, existingAvailability |-> 0, calls |-> <<>>,
     status |-> 0]

TdRespond(q, status) == [q EXCEPT !.pc = "done", !.status = status]

TdLog(q, op, result) ==
    [q EXCEPT !.calls = Append(@, [op |-> op, result |-> result])]

\* the three required-field checks
TdValid(payload) ==
    /\ payload.businessId # 0
    /\ payload.date # ""
    /\ payload.isClosed # JsNull

\* the request arrives; the checks before the first await
TdReceive(r) ==
    /\ tdReq[r].pc = "idle"
    /\ \E payload \in TdPayloads :
         LET q == [TdIdle EXCEPT !.payload = payload,
                      !.rowsAtStart = Cardinality(AvailabilityRows(
                          availability, payload.businessId, payload.date))]
         IN  tdReq' = [tdReq EXCEPT ![r] =
                 IF TdValid(payload) THEN [q EXCEPT !.pc = "check"]
                 ELSE TdRespond(q, 400)]
    /\ UNCHANGED <<availability, nextAvailabilityId>>
    /\ UNCHANGED notTd

TdBranchAlwaysInsert(q, found) == [q EXCEPT !.pc = "insert"]

\* if (existingAvailability) { update } else { insert }
TdBranch(q, found) ==
    IF found # 0
    THEN [q EXCEPT !.pc = "update", !.existingAvailability = found]
    ELSE [q EXCEPT !.pc = "insert"]

\* await CheckTailorDateAvailabilityExists({ BusinessId, Date })
TdCheckTailorDateAvailabilityExists(r) ==
    /\ tdReq[r].pc = "check"
    /\ LET q0 == TdLog(tdReq[r], "CheckTailorDateAvailabilityExists", "threw")
           q == TdLog(tdReq[r], "CheckTailorDateAvailabilityExists", "ok")
           found == AvailabilityRows(availability, q.payload.businessId,
                                     q.payload.date)
       IN  \/ tdReq' = [tdReq EXCEPT ![r] = TdRespond(q0, 500)]
           \/ /\ found = {}
              /\ tdReq' = [tdReq EXCEPT ![r] = TdBranch(q, 0)]
           \/ \E a \in found :
                tdReq' = [tdReq EXCEPT ![r] =
                             TdBranch(q, a.TailorDateAvailabilityId)]
    /\ UNCHANGED <<availability, nextAvailabilityId>>
    /\ UNCHANGED notTd

\* await UpdateTailorDateAvailability({ TailorDateAvailabilityId, Date,
\* IsClosed }), then 200
TdUpdateTailorDateAvailability(r) ==
    /\ tdReq[r].pc = "update"
    /\ LET q0 == TdLog(tdReq[r], "UpdateTailorDateAvailability", "threw")
           q == TdLog(tdReq[r], "UpdateTailorDateAvailability", "ok")
       IN  \/ /\ tdReq' = [tdReq EXCEPT ![r] = TdRespond(q0, 500)]
              /\ UNCHANGED availability
           \/ /\ tdReq' = [tdReq EXCEPT ![r] = TdRespond(q, 200)]
              /\ availability' =
                   {IF a.TailorDateAvailabilityId = q.existingAvailability
                    THEN [a EXCEPT !.Date = q.payload.date,
                                   !.IsClosed = q.payload.isClosed]
                    ELSE a : a \in availability}
    /\ UNCHANGED nextAvailabilityId
    /\ UNCHANGED notTd

\* await InsertTailorDateAvailability({ BusinessId, Date, IsClosed }), then 201
TdInsertTailorDateAvailability(r) ==
    /\ tdReq[r].pc = "insert"
    /\ LET q0 == TdLog(tdReq[r], "InsertTailorDateAvailability", "threw")
           q == TdLog(tdReq[r], "InsertTailorDateAvailability", "ok")
       IN  \/ /\ tdReq' = [tdReq EXCEPT ![r] = TdRespond(q0, 500)]
              /\ UNCHANGED <<availability, nextAvailabilityId>>
           \/ /\ tdReq' = [tdReq EXCEPT ![r] = TdRespond(q, 201)]
              /\ availability' = availability \cup
                   {[TailorDateAvailabilityId |-> nextAvailabilityId,
                     BusinessId |-> q.payload.businessId,
                     Date |-> q.payload.date,
                     IsClosed |-> q.payload.isClosed]}
              /\ nextAvailabilityId' = nextAvailabilityId + 1
    /\ UNCHANGED notTd

TdInit ==
    /\ availability = {}
    /\ nextAvailabilityId = 1
    /\ tdReq = [r \in TdRequests |-> TdIdle]

\* a client that sends each request after the response to the one before
EarlierResponded(r) == \A e \in TdRequests : e < r => tdReq[e].pc = "done"

TdSequentialNext ==
    \E r \in TdRequests :
        \/ EarlierResponded(r) /\ TdReceive(r)
        \/ TdCheckTailorDateAvailabilityExists(r)
        \/ TdUpdateTailorDateAvailability(r)
        \/ TdInsertTailorDateAvailability(r)

\* requests in flight together
TdConcurrentNext ==
    \E r \in TdRequests :
        \/ TdReceive(r)
        \/ TdCheckTailorDateAvailabilityExists(r)
        \/ TdUpdateTailorDateAvailability(r)
        \/ TdInsertTailorDateAvailability(r)

(***************************************************************************)
(* Claims about POST /tailor-date-availability                             *)
(***************************************************************************)
TdOps(q) == {q.calls[n].op : n \in 1..Len(q.calls)}

TdThrew(q) == \E n \in 1..Len(q.calls) : q.calls[n].result = "threw"

\* C7: of two successive requests with the same valid payload, the first
\* finding no row for (businessId, date) and no statement failing, the first
\* inserts and answers 201, the second updates and answers 200 without
\* inserting, and exactly one row for (businessId, date) is stored.
C7_SecondSubmissionUpdates ==
    \A r \in TdRequests : \A n \in TdRequests :
        (/\ n = r + 1
         /\ tdReq[r].pc = "done" /\ tdReq[n].pc = "done"
         /\ tdReq[r].payload = tdReq[n].payload
         /\ tdReq[r].payload.businessId # 0
         /\ tdReq[r].payload.date # ""
         /\ tdReq[r].payload.isClosed # JsNull
         /\ tdReq[r].rowsAtStart = 0
         /\ ~TdThrew(tdReq[r]) /\ ~TdThrew(tdReq[n]))
        => /\ tdReq[r].status = 201
           /\ "InsertTailorDateAvailability" \in TdOps(tdReq[r])
           /\ tdReq[n].status = 200
           /\ "UpdateTailorDateAvailability" \in TdOps(tdReq[n])
           /\ "InsertTailorDateAvailability" \notin TdOps(tdReq[n])
           /\ Cardinality(AvailabilityRows(availability,
                  tdReq[r].payload.businessId, tdReq[r].payload.date)) = 1

C7_Witness ==
    /\ tdReq[1].status = 201 /\ tdReq[2].status = 200
    /\ tdReq[1].payload = tdReq[2].payload
    /\ tdReq[1].payload.isClosed = "false"
    /\ Cardinality(availability) = 1

\* C8: the table holds at most one row per (BusinessId, Date).
C8_OneRowPerBusinessAndDate ==
    \A a, b \in availability :
        (a.BusinessId = b.BusinessId /\ a.Date = b.Date)
        => a.TailorDateAvailabilityId = b.TailorDateAvailabilityId

(***************************************************************************)
(* The product router: POST /api/products, PUT and DELETE /api/products/:id *)
(***************************************************************************)
\* the Brands and Categories tables; no data-access function writes them
Brands == {[id |-> 1, name |-> "Acme"], [id |-> 2, name |-> "Zara"]}
Categories == {[id |-> 1, name |-> "Fabric"]}

\* a brand or category member of the body: absent, a number or a string
Undefined == [type |-> "undefined", n |-> 0, s |-> ""]
Num(n) == [type |-> "number", n |-> n, s |-> ""]
Str(s) == [type |-> "string", n |-> 0, s |-> s]

BrandInputs ==
    {Undefined, Num(1), Num(9), Str("2"), Str("9"), Str("Acme"),
     Str(" Acme "), Str("Nike")}
CategoryInputs == {Undefined, Num(1), Str("Fabric"), Str("Silk")}

\* String.prototype.trim, /^\d+$/.test and parseInt(.., 10) on those strings
trim(str) == IF str = " Acme " THEN "Acme" ELSE str
IsDigits(str) == str \in {"2", "9"}
parseDecimal(str) == IF str = "2" THEN 2 ELSE 9

\* JavaScript truthiness of a member
Truthy(v) ==
    \/ v.type = "number" /\ v.n # 0
    \/ v.type = "string" /\ v.s # ""

\* the outcome of getBrandId / getCategoryId: the id, or the Error thrown
Resolved(id) == [ok |-> TRUE, id |-> id, kind |-> "", naming |-> Undefined]
NotFound(kind, naming) ==
    [ok |-> FALSE, id |-> 0, kind |-> kind, naming |-> naming]

IdsOf(table) == {row.id : row \in table}
IdOfName(table, name) == (CHOOSE row \in table : row.name = name).id
NamesOf(table) == {row.name : row \in table}

getIdUnchecked(table, v) ==
    IF v.type = "number" THEN Resolved(v.n)
    ELSE IF IsDigits(trim(v.s)) THEN Resolved(parseDecimal(trim(v.s)))
    ELSE IF trim(v.s) \in NamesOf(table)
         THEN Resolved(IdOfName(table, trim(v.s)))
         ELSE Resolved(0)

\* getBrandId(brand) / getCategoryId(category) for a truthy member, given the
\* table the lookups read: Get..ById for a number or a string of digits,
\* Get..ByName(trimmed) otherwise
getId(table, v) ==
    IF v.type = "number"
    THEN IF v.n \in IdsOf(table) THEN Resolved(v.n)
         ELSE NotFound("IdNotFound", Num(v.n))
    ELSE IF IsDigits(trim(v.s))
         THEN IF parseDecimal(trim(v.s)) \in IdsOf(table)
              THEN Resolved(parseDecimal(trim(v.s)))
              ELSE NotFound("IdNotFound", Num(parseDecimal(trim(v.s))))
         ELSE IF trim(v.s) \in NamesOf(table)
              THEN Resolved(IdOfName(table, trim(v.s)))
              ELSE NotFound("NameNotFound", v)

\* the lookup getBrandId / getCategoryId issues for the member
LookupOp(kind, v) ==
    IF v.type = "number" \/ IsDigits(trim(v.s))
    THEN IF kind = "Brand" THEN "GetBrandById" ELSE "GetCategoryById"
    ELSE IF kind = "Brand" THEN "GetBrandByName" ELSE "GetCategoryByName"

TitleInputs == {"ab", "Shirt"}
\* parsedTitle.trim().length
TitleLength(title) ==
    CASE title = "ab" -> 2 [] title = "Shirt" -> 5 [] OTHER -> 0

PriceMrpInputs == {-5, 0, 100}
PriceSaleInputs == {0, 50, 100, 150}

\* the body and files of a create or update request; user_id 0, price_sale 0
\* stand for absent members, compliance tells whether any compliance field
\* is given, files is req.files.length
ProductPayloads ==
    [title : TitleInputs, price_mrp : PriceMrpInputs,
     price_sale : PriceSaleInputs, brand : BrandInputs,
     category : CategoryInputs, user_id : {0, 7}, compliance : BOOLEAN,
     files : 0..MaxImages]

NoPayload ==
    [title |-> "", price_mrp |-> 0, price_sale |-> 0, brand |-> Undefined,
     category |-> Undefined, user_id |-> 0, compliance |-> FALSE, files |-> 0]

\* req.params.id, and parseInt of it
IdParams == {"1", "2", "abc"}

\* validationRules.priceSale: the custom rule of the productCreation set
PriceSaleRuleRejects(price_sale, price_mrp) ==
    price_sale # 0 /\ price_mrp # 0 /\ price_sale >= price_mrp

PrIdle ==
    [kind |-> "none", pc |-> "idle", param |-> "", payload |-> NoPayload,
     productId |-> 0, brandId |-> 0, categoryId |-> 0, i |-> 0,
     uploadedImages |-> <<>>, calls |-> <<>>, status |-> 0,
     message |-> NotFound("", Undefined),
     data |-> [brand_id |-> 0, category_id |-> 0]]

PrLog(q, op, result) ==
    [q EXCEPT !.calls = Append(@, [op |-> op, result |-> result])]

PrRespond(q, status) == [q EXCEPT !.pc = "done", !.status = status]

\* the stages of a handler after the required-field checks, in source order,
\* and whether the request runs the stage
Stages(kind) ==
    CASE kind = "create" ->
            <<"brand", "category", "InsertProduct", "InsertUserProduct",
              "InsertProductPrice", "InsertProductCompliance",
              "InsertProductImage">>
      [] kind = "update" ->
            <<"brand", "category", "UpdateProduct", "UpdateProductPrice",
              "UpdateProductCompliance", "DeleteProductImages",
              "InsertProductImage">>
      [] kind = "delete" ->
            <<"DeleteProductImages", "DeleteProductCompliance",
              "DeleteProductPrice", "DeleteUserProduct", "DeleteProduct">>

Runs(q, stage) ==
    CASE stage = "brand" -> Truthy(q.payload.brand)
      [] stage = "category" -> Truthy(q.payload.category)
      [] stage = "InsertUserProduct" -> q.payload.user_id # 0
      [] stage \in {"InsertProductCompliance", "UpdateProductCompliance"} ->
            q.payload.compliance
      [] stage = "DeleteProductImages" ->
            q.kind = "delete" \/ q.payload.files > 0
      [] stage = "InsertProductImage" -> q.payload.files > 0
      [] OTHER -> TRUE

SuccessStatus(kind) == IF kind = "create" THEN 201 ELSE 200

\* the response of a request that ran to the end of its handler
Succeed(q) ==
    [PrRespond(q, SuccessStatus(q.kind)) EXCEPT
        !.data = [brand_id |-> q.brandId, category_id |-> q.categoryId]]

\* run the synchronous code up to the first stage at or after position n
RECURSIVE GotoStage(_, _)
GotoStage(q, n) ==
    IF n > Len(Stages(q.kind)) THEN Succeed(q)
    ELSE IF Runs(q, Stages(q.kind)[n])
         THEN [q EXCEPT !.pc = Stages(q.kind)[n], !.i = 0]
         ELSE GotoStage(q, n + 1)

StageIndex(kind, stage) ==
    CHOOSE n \in 1..Len(Stages(kind)) : Stages(kind)[n] = stage

\* continue after the stage the request is at
AfterStage(q) == GotoStage(q, StageIndex(q.kind, q.pc) + 1)

\* the manual checks of title and price_mrp
RequiredFieldsOk(payload) ==
    /\ TitleLength(payload.title) >= 3
    /\ payload.price_mrp # 0
    /\ ~(payload.price_mrp < 0)

\* the body is read and the required-field checks are left to later stages
ReadBodyUnchecked(q) == GotoStage(q, 1)

\* the body is read: required-field checks, then the first stage
ReadBody(q) ==
    IF RequiredFieldsOk(q.payload) THEN GotoStage(q, 1)
    ELSE PrRespond(q, 400)

\* a request arrives: POST /, PUT /:id or DELETE /:id, and the code before
\* the first await
PrReceive ==
    /\ prReq.pc = "idle"
    /\ \/ \E payload \in ProductPayloads :
            prReq' = ReadBody([PrIdle EXCEPT !.kind = "create",
                                             !.payload = payload])
       \/ \E param \in IdParams, payload \in ProductPayloads :
            LET q == [PrIdle EXCEPT !.kind = "update", !.param = param,
                                    !.payload = payload]
            IN  prReq' = IF isNaN(param) THEN PrRespond(q, 400)
                         ELSE [q EXCEPT !.pc = "GetProductById",
                                        !.productId = parseInt(param)]
       \/ \E param \in IdParams :
            LET q == [PrIdle EXCEPT !.kind = "delete", !.param = param]
            IN  prReq' = IF isNaN(param) THEN PrRespond(q, 400)
                         ELSE [q EXCEPT !.pc = "GetProductById",
                                        !.productId = parseInt(param)]
    /\ UNCHANGED prTables
    /\ UNCHANGED notPr

\* const existingProduct = await GetProductById(productId)
PrGetProductById ==
    /\ prReq.pc = "GetProductById"
    /\ LET q0 == PrLog(prReq, "GetProductById", "threw")
           q == PrLog(prReq, "GetProductById", "ok")
       IN  \/ prReq' = PrRespond(q0, 500)
           \/ prReq' =
                IF \A row \in products : row.id # q.productId
                THEN PrRespond(q, 404)
                ELSE IF q.kind = "update" THEN ReadBody(q)
                ELSE GotoStage(q, 1)
    /\ UNCHANGED prTables
    /\ UNCHANGED notPr

\* the catch block around getBrandId / getCategoryId: 400 with error.message
ResolutionFailed(q, kind, naming) ==
    [PrRespond(q, 400) EXCEPT !.message = NotFound(kind, naming)]

\* brandId = await getBrandId(parsedBrand)
PrResolveBrand ==
    /\ prReq.pc = "brand"
    /\ LET op == LookupOp("Brand", prReq.payload.brand)
           q0 == PrLog(prReq, op, "threw")
           q == PrLog(prReq, op, "ok")
           found == getId(Brands, q.payload.brand)
       IN  \/ prReq' = ResolutionFailed(q0, "DatabaseError", Undefined)
           \/ prReq' =
                IF found.ok THEN AfterStage([q EXCEPT !.brandId = found.id])
                ELSE ResolutionFailed(q, found.kind, found.naming)
    /\ UNCHANGED prTables
    /\ UNCHANGED notPr

\* categoryId = await getCategoryId(parsedCategory)
PrResolveCategory ==
    /\ prReq.pc = "category"
    /\ LET op == LookupOp("Category", prReq.payload.category)
           q0 == PrLog(prReq, op, "threw")
           q == PrLog(prReq, op, "ok")
           found == getId(Categories, q.payload.category)
       IN  \/ prReq' = ResolutionFailed(q0, "DatabaseError", Undefined)
           \/ prReq' =
                IF found.ok THEN AfterStage([q EXCEPT !.categoryId = found.id])
                ELSE ResolutionFailed(q, found.kind, found.naming)
    /\ UNCHANGED prTables
    /\ UNCHANGED notPr

\* const insertResult = await InsertProduct(productData)
PrInsertProduct ==
    /\ prReq.pc = "InsertProduct"
    /\ LET q0 == PrLog(prReq, "InsertProduct", "threw")
           q == PrLog(prReq, "InsertProduct", "ok")
       IN  \/ /\ prReq' = PrRespond(q0, 500)
              /\ UNCHANGED <<products, nextProductId>>
           \/ /\ products' = products \cup
                    {[id |-> nextProductId, brand_id |-> q.brandId,
                      category_id |-> q.categoryId]}
              /\ nextProductId' = nextProductId + 1
              /\ prReq' = AfterStage([q EXCEPT !.productId = nextProductId])
    /\ UNCHANGED <<productPrices, productCompliance, productImages,
                   userProducts, nextImageId>>
    /\ UNCHANGED notPr

\* await UpdateProduct(productId, productData)
PrUpdateProduct ==
    /\ prReq.pc = "UpdateProduct"
    /\ LET q0 == PrLog(prReq, "UpdateProduct", "threw")
           q == PrLog(prReq, "UpdateProduct", "ok")
       IN  \/ /\ prReq' = PrRespond(q0, 500)
              /\ UNCHANGED products
           \/ /\ products' =
                    {IF row.id = q.productId
                     THEN [row EXCEPT !.brand_id = q.brandId,
                                      !.category_id = q.categoryId]
                     ELSE row : row \in products}
              /\ prReq' = AfterStage(q)
    /\ UNCHANGED <<productPrices, productCompliance, productImages,
                   userProducts, nextProductId, nextImageId>>
    /\ UNCHANGED notPr

\* a catch block that only logs: the handler goes on with the next stage
SwallowAborts(q) == PrRespond(q, 500)
Swallow(q) == AfterStage(q)

\* await InsertUserProduct({ user_id, product_id }); a failure is only logged
PrInsertUserProduct ==
    /\ prReq.pc = "InsertUserProduct"
    /\ \/ /\ prReq' = Swallow(PrLog(prReq, "InsertUserProduct", "threw"))
          /\ UNCHANGED userProducts
       \/ /\ prReq' = AfterStage(PrLog(prReq, "InsertUserProduct", "ok"))
          /\ userProducts' = userProducts \cup
                {[user_id |-> prReq.payload.user_id,
                  product_id |-> prReq.productId]}
    /\ UNCHANGED <<products, productPrices, productCompliance, productImages,
                   nextProductId, nextImageId>>
    /\ UNCHANGED notPr

\* priceData of both handlers: price_sale null when absent
PriceRow(q) ==
    [product_id |-> q.productId, price_mrp |-> q.payload.price_mrp,
     price_sale |-> q.payload.price_sale]

\* await InsertProductPrice(priceData); a failure is only logged
PrInsertProductPrice ==
    /\ prReq.pc = "InsertProductPrice"
    /\ \/ /\ prReq' = Swallow(PrLog(prReq, "InsertProductPrice", "threw"))
          /\ UNCHANGED productPrices
       \/ /\ prReq' = AfterStage(PrLog(prReq, "InsertProductPrice", "ok"))
          /\ productPrices' = productPrices \cup {PriceRow(prReq)}
    /\ UNCHANGED <<products, productCompliance, productImages, userProducts,
                   nextProductId, nextImageId>>
    /\ UNCHANGED notPr

\* await UpdateProductPrice(productId, priceData); a failure is only logged
PrUpdateProductPrice ==
    /\ prReq.pc = "UpdateProductPrice"
    /\ \/ /\ prReq' = Swallow(PrLog(prReq, "UpdateProductPrice", "threw"))
          /\ UNCHANGED productPrices
       \/ /\ prReq' = AfterStage(PrLog(prReq, "UpdateProductPrice", "ok"))
          /\ productPrices' =
                {IF row.product_id = prReq.productId THEN PriceRow(prReq)
                 ELSE row : row \in productPrices}
    /\ UNCHANGED <<products, productCompliance, productImages, userProducts,
                   nextProductId, nextImageId>>
    /\ UNCHANGED notPr

\* await InsertProductCompliance(complianceData); a failure is only logged
PrInsertProductCompliance ==
    /\ prReq.pc = "InsertProductCompliance"
    /\ \/ /\ prReq' = Swallow(PrLog(prReq, "InsertProductCompliance",
                                       "threw"))
          /\ UNCHANGED productCompliance
       \/ /\ prReq' = AfterStage(PrLog(prReq, "InsertProductCompliance", "ok"))
          /\ productCompliance' = productCompliance \cup {prReq.productId}
    /\ UNCHANGED <<products, productPrices, productImages, userProducts,
                   nextProductId, nextImageId>>
    /\ UNCHANGED notPr

\* await UpdateProductCompliance(productId, complianceData): the fields of an
\* existing row change, no row appears; a failure is only logged
PrUpdateProductCompliance ==
    /\ prReq.pc = "UpdateProductCompliance"
    /\ \/ prReq' = Swallow(PrLog(prReq, "UpdateProductCompliance", "threw"))
       \/ prReq' = AfterStage(PrLog(prReq, "UpdateProductCompliance", "ok"))
    /\ UNCHANGED prTables
    /\ UNCHANGED notPr

\* a cascade delete of one table by product id; a failure is only logged
DeleteRowsOf(table, productId) == {row \in table : row.product_id # productId}

\* await DeleteProductImages(productId), of DELETE and of PUT with new files
PrDeleteProductImages ==
    /\ prReq.pc = "DeleteProductImages"
    /\ \/ /\ prReq' = Swallow(PrLog(prReq, "DeleteProductImages", "threw"))
          /\ UNCHANGED productImages
       \/ /\ prReq' = AfterStage(PrLog(prReq, "DeleteProductImages", "ok"))
          /\ productImages' = DeleteRowsOf(productImages, prReq.productId)
    /\ UNCHANGED <<products, productPrices, productCompliance, userProducts,
                   nextProductId, nextImageId>>
    /\ UNCHANGED notPr

\* await DeleteProductCompliance(productId)
PrDeleteProductCompliance ==
    /\ prReq.pc = "DeleteProductCompliance"
    /\ \/ /\ prReq' = Swallow(PrLog(prReq, "DeleteProductCompliance",
                                       "threw"))
          /\ UNCHANGED productCompliance
       \/ /\ prReq' = AfterStage(PrLog(prReq, "DeleteProductCompliance", "ok"))
          /\ productCompliance' = productCompliance \ {prReq.productId}
    /\ UNCHANGED <<products, productPrices, productImages, userProducts,
                   nextProductId, nextImageId>>
    /\ UNCHANGED notPr

\* await DeleteProductPrice(productId)
PrDeleteProductPrice ==
    /\ prReq.pc = "DeleteProductPrice"
    /\ \/ /\ prReq' = Swallow(PrLog(prReq, "DeleteProductPrice", "threw"))
          /\ UNCHANGED productPrices
       \/ /\ prReq' = AfterStage(PrLog(prReq, "DeleteProductPrice", "ok"))
          /\ productPrices' = DeleteRowsOf(productPrices, prReq.productId)
    /\ UNCHANGED <<products, productCompliance, productImages, userProducts,
                   nextProductId, nextImageId>>
    /\ UNCHANGED notPr

\* await DeleteUserProduct(productId)
PrDeleteUserProduct ==
    /\ prReq.pc = "DeleteUserProduct"
    /\ \/ /\ prReq' = Swallow(PrLog(prReq, "DeleteUserProduct", "threw"))
          /\ UNCHANGED userProducts
       \/ /\ prReq' = AfterStage(PrLog(prReq, "DeleteUserProduct", "ok"))
          /\ userProducts' = DeleteRowsOf(userProducts, prReq.productId)
    /\ UNCHANGED <<products, productPrices, productCompliance, productImages,
                   nextProductId, nextImageId>>
    /\ UNCHANGED notPr

\* await DeleteProduct(productId): the one delete whose failure is a 500
PrDeleteProduct ==
    /\ prReq.pc = "DeleteProduct"
    /\ \/ /\ prReq' = PrRespond(PrLog(prReq, "DeleteProduct", "threw"), 500)
          /\ UNCHANGED products
       \/ /\ prReq' = AfterStage(PrLog(prReq, "DeleteProduct", "ok"))
          /\ products' = {row \in products : row.id # prReq.productId}
    /\ UNCHANGED <<productPrices, productCompliance, productImages,
                   userProducts, nextProductId, nextImageId>>
    /\ UNCHANGED notPr

\* one turn of the loop over req.files: the next file, or the stage after
NextImage(q) ==
    IF q.i + 1 < q.payload.files THEN [q EXCEPT !.i = @ + 1]
    ELSE AfterStage(q)

\* await InsertProductImage(imageData) for req.files[i]; a failure is only
\* logged and the loop goes on
PrInsertProductImage ==
    /\ prReq.pc = "InsertProductImage"
    /\ \/ /\ prReq' = NextImage(PrLog(prReq, "InsertProductImage", "threw"))
          /\ UNCHANGED <<productImages, nextImageId>>
       \/ /\ productImages' = productImages \cup
                {[id |-> nextImageId, product_id |-> prReq.productId,
                  is_primary |-> (prReq.i = 0), sort_order |-> prReq.i]}
          /\ nextImageId' = nextImageId + 1
          /\ prReq' = NextImage(
                [PrLog(prReq, "InsertProductImage", "ok") EXCEPT
                    !.uploadedImages = Append(@, nextImageId)])
    /\ UNCHANGED <<products, productPrices, productCompliance, userProducts,
                   nextProductId>>
    /\ UNCHANGED notPr

\* the database before the request: product 1 as an earlier POST with two
\* files, a user id and compliance fields leaves it
PrInit ==
    /\ products = {[id |-> 1, brand_id |-> 1, category_id |-> 1]}
    /\ productPrices = {[product_id |-> 1, price_mrp |-> 100,
                         price_sale |-> 50]}
    /\ productCompliance = {1}
    /\ productImages =
            {[id |-> 1, product_id |-> 1, is_primary |-> TRUE,
              sort_order |-> 0],
             [id |-> 2, product_id |-> 1, is_primary |-> FALSE,
              sort_order |-> 1]}
    /\ userProducts = {[user_id |-> 7, product_id |-> 1]}
    /\ nextProductId = 2
    /\ nextImageId = 3
    /\ prReq = PrIdle

PrNext ==
    \/ PrReceive
    \/ PrGetProductById
    \/ PrResolveBrand
    \/ PrResolveCategory
    \/ PrInsertProduct
    \/ PrUpdateProduct
    \/ PrInsertUserProduct
    \/ PrInsertProductPrice
    \/ PrUpdateProductPrice
    \/ PrInsertProductCompliance
    \/ PrUpdateProductCompliance
    \/ PrDeleteProductImages
    \/ PrDeleteProductCompliance
    \/ PrDeleteProductPrice
    \/ PrDeleteUserProduct
    \/ PrDeleteProduct
    \/ PrInsertProductImage

(***************************************************************************)
(* Product router: claims                                                  *)
(***************************************************************************)
PrOps == {prReq.calls[k].op : k \in DOMAIN prReq.calls}
PrCalled(op, result) ==
    \E k \in DOMAIN prReq.calls :
        prReq.calls[k] = [op |-> op, result |-> result]
PrWriteOps ==
    {"InsertProduct", "UpdateProduct", "InsertUserProduct",
     "InsertProductPrice", "UpdateProductPrice", "InsertProductCompliance",
     "UpdateProductCompliance", "InsertProductImage", "DeleteProductImages",
     "DeleteProductCompliance", "DeleteProductPrice", "DeleteUserProduct",
     "DeleteProduct"}
PrReadOps ==
    {"GetProductById", "GetBrandById", "GetBrandByName", "GetCategoryById",
     "GetCategoryByName"}
IsCreateOrUpdate == prReq.kind \in {"create", "update"}
\* the handler got as far as reading the body: always for POST, after the
\* product was found for PUT
BodyRead ==
    \/ prReq.kind = "create"
    \/ prReq.kind = "update" /\ PrCalled("GetProductById", "ok")
                             /\ prReq.status # 404
PrTablesAsBefore ==
    /\ products = {[id |-> 1, brand_id |-> 1, category_id |-> 1]}
    /\ nextProductId = 2
    /\ productPrices =
            {[product_id |-> 1, price_mrp |-> 100, price_sale |-> 50]}

\* C5: a POST or PUT of a product whose price_sale is not below its
\* price_mrp (the priceSale rule) is answered 400 and writes nothing to the
\* database.
C5_SaleNotBelowMrpRejected ==
    (/\ IsCreateOrUpdate
     /\ PriceSaleRuleRejects(prReq.payload.price_sale,
                             prReq.payload.price_mrp))
    => /\ PrOps \cap PrWriteOps = {}
       /\ (prReq.pc = "done" /\ BodyRead) => prReq.status = 400

UnknownName(table, v) ==
    /\ v.type = "string"
    /\ v.s # ""
    /\ ~IsDigits(trim(v.s))
    /\ trim(v.s) \notin NamesOf(table)
\* the number a member holds when it is a number or a string of digits
NumericIdOf(v) == IF v.type = "number" THEN v.n ELSE parseDecimal(trim(v.s))
ExistingNumericId(table, v) ==
    /\ \/ v.type = "number" /\ v.n # 0
       \/ v.type = "string" /\ IsDigits(trim(v.s))
    /\ NumericIdOf(v) \in IdsOf(table)
Succeeded == prReq.pc = "done" /\ prReq.status \in {200, 201}
ProductRow == CHOOSE row \in products : row.id = prReq.productId

\* C6: on product creation and update, a brand (category) name that matches
\* no row is answered 400 with a message naming the input once the lookup
\* has returned, and in every state of such a request only lookups have been
\* issued, so no brand, category or product row is written; a brand
\* (category) given as an existing numeric id is the brand_id (category_id)
\* of the response and of the stored product when the request succeeds.
C6_UnknownNameRejectedKnownIdEchoed ==
    IsCreateOrUpdate =>
        /\ UnknownName(Brands, prReq.payload.brand) =>
              /\ PrOps \subseteq PrReadOps
              /\ PrTablesAsBefore
              /\ PrCalled("GetBrandByName", "ok") =>
                    /\ prReq.pc = "done"
                    /\ prReq.status = 400
                    /\ prReq.message.kind = "NameNotFound"
                    /\ prReq.message.naming = prReq.payload.brand
        /\ UnknownName(Categories, prReq.payload.category) =>
              /\ PrOps \subseteq PrReadOps
              /\ PrTablesAsBefore
              /\ PrCalled("GetCategoryByName", "ok") =>
                    /\ prReq.pc = "done"
                    /\ prReq.status = 400
                    /\ prReq.message.kind = "NameNotFound"
                    /\ prReq.message.naming = prReq.payload.category
        /\ (Succeeded /\ ExistingNumericId(Brands, prReq.payload.brand)) =>
              /\ prReq.data.brand_id = NumericIdOf(prReq.payload.brand)
              /\ ProductRow.brand_id = NumericIdOf(prReq.payload.brand)
        /\ (Succeeded
            /\ ExistingNumericId(Categories, prReq.payload.category)) =>
              /\ prReq.data.category_id = NumericIdOf(prReq.payload.category)
              /\ ProductRow.category_id =
                    NumericIdOf(prReq.payload.category)

C6_Witness ==
    /\ prReq.kind = "create"
    /\ prReq.pc = "done"
    /\ prReq.payload.brand = Str("Nike")
    /\ PrCalled("GetBrandByName", "ok")
    /\ prReq.status = 400

DeleteOrder ==
    <<"GetProductById", "DeleteProductImages", "DeleteProductCompliance",
      "DeleteProductPrice", "DeleteUserProduct", "DeleteProduct">>
\* a DELETE that found its product and has answered
DeleteAnswered ==
    /\ prReq.kind = "delete"
    /\ prReq.pc = "done"
    /\ PrCalled("GetProductById", "ok")
    /\ prReq.status # 404

\* C10: a DELETE of an existing product issues the deletes in the order
\* images, compliance, price, user-product, product; DeleteProduct is
\* attempted exactly once whichever cascade deletes threw, and the answer is
\* 200 exactly when DeleteProduct did not throw (500 otherwise).
C10_CascadeOrderAndStatus ==
    DeleteAnswered =>
        /\ Len(prReq.calls) = Len(DeleteOrder)
        /\ \A k \in DOMAIN prReq.calls : prReq.calls[k].op = DeleteOrder[k]
        /\ Cardinality({k \in DOMAIN prReq.calls :
                            prReq.calls[k].op = "DeleteProduct"}) = 1
        /\ prReq.status = 200 <=> PrCalled("DeleteProduct", "ok")
        /\ prReq.status = 500 <=> PrCalled("DeleteProduct", "threw")

C10_Witness ==
    /\ DeleteAnswered
    /\ PrCalled("DeleteProductImages", "threw")
    /\ PrCalled("DeleteProductPrice", "threw")
    /\ PrCalled("DeleteProduct", "ok")
    /\ prReq.status = 200

\* the images stored for the product of the request
ImagesOfProduct == {row \in productImages : row.product_id = prReq.productId}
ImagesBefore == {1, 2}
UploadedIds == {prReq.uploadedImages[k] : k \in DOMAIN prReq.uploadedImages}
PutWithImages ==
    prReq.kind = "update" /\ prReq.payload.files > 0 /\ Succeeded

\* C17: a PUT of a product with at least one uploaded image calls
\* DeleteProductImages before any InsertProductImage, and when it has
\* answered no image row from before the request remains: the stored images
\* of the product are exactly the newly inserted ones.
C17_ImagesReplaced ==
    PutWithImages =>
        /\ "DeleteProductImages" \in PrOps
        /\ \A j, k \in DOMAIN prReq.calls :
              (/\ prReq.calls[k].op = "DeleteProductImages"
               /\ prReq.calls[j].op = "InsertProductImage") => k < j
        /\ \A row \in ImagesOfProduct : row.id \notin ImagesBefore
        /\ {row.id : row \in ImagesOfProduct} = UploadedIds

\* the rows this request inserted for its files
UploadedRows == {row \in productImages : row.id \in UploadedIds}
PrimaryImages == {row \in ImagesOfProduct : row.is_primary}

\* C18: a create or update with n >= 1 uploaded images inserts the image of
\* index 0 with is_primary = true and all others with false, so a product
\* that ends the request with at least one stored image from it has exactly
\* one primary image.
C18_ExactlyOnePrimary ==
    (IsCreateOrUpdate /\ Succeeded /\ prReq.payload.files > 0) =>
        /\ \A row \in UploadedRows : row.is_primary <=> row.sort_order = 0
        /\ UploadedRows # {} => Cardinality(PrimaryImages) = 1

\* the writes of POST that depend on the product row
DependentWrites ==
    {"InsertUserProduct", "InsertProductPrice", "InsertProductCompliance",
     "InsertProductImage"}
CreateAnswered == prReq.kind = "create" /\ prReq.pc = "done"

\* C19: once InsertProduct has succeeded, POST /api/products answers 201
\* whichever of the dependent writes (user mapping, price, compliance, each
\* image) fail, and the product row stays stored.
C19_CreatedDespiteDependentFailures ==
    (CreateAnswered /\ PrCalled("InsertProduct", "ok")) =>
        /\ prReq.status = 201
        /\ \E row \in products : row.id = prReq.productId

\* a create whose user mapping, price, compliance and image writes all threw
C19_Witness ==
    /\ CreateAnswered
    /\ PrCalled("InsertProduct", "ok")
    /\ \A op \in DependentWrites : PrCalled(op, "threw")
    /\ \A op \in DependentWrites : ~PrCalled(op, "ok")
    /\ prReq.status = 201

(***************************************************************************)
(* POST /createOrder                                                       *)
(***************************************************************************)
\* an element of req.body.orderItems; 0 stands for an absent member
ItemInputs ==
    {[itemTotal |-> 0, quantity |-> 2, unitPrice |-> 10],
     [itemTotal |-> 50, quantity |-> 1, unitPrice |-> 10],
     [itemTotal |-> 0, quantity |-> 0, unitPrice |-> 0]}

\* an address object of the body: absent, with every required field, or
\* with one of them missing
AddressInputs == {"absent", "complete", "incomplete"}

\* req.body; customerId 0, totalAmount 0, an address id 0 stand for absent
\* members
OrderPayloads ==
    [customerId : {0, 1}, totalAmount : {0, 99},
     orderItems : SeqsUpTo(ItemInputs, MaxItems),
     deliveryAddressId : {0, 5}, deliveryAddress : AddressInputs,
     measurementAddressId : {0, 5}, measurementAddress : AddressInputs]

\* item.itemTotal || (item.quantity * item.unitPrice) || 0
ItemTotal(item) ==
    IF item.itemTotal # 0 THEN item.itemTotal
    ELSE item.quantity * item.unitPrice

RECURSIVE SumItemTotals(_)
SumItemTotals(items) ==
    IF items = <<>> THEN 0
    ELSE ItemTotal(Head(items)) + SumItemTotals(Tail(items))

\* calculatedTotal: totalAmount || 0, replaced by the sum over the items
\* whenever the body carries at least one item
calculatedTotal(payload) ==
    IF Len(payload.orderItems) > 0 THEN SumItemTotals(payload.orderItems)
    ELSE payload.totalAmount

CoIdle ==
    [pc |-> "idle",
     payload |-> [customerId |-> 0, totalAmount |-> 0, orderItems |-> <<>>,
                  deliveryAddressId |-> 0, deliveryAddress |-> "absent",
                  measurementAddressId |-> 0,
                  measurementAddress |-> "absent"],
     orderId |-> 0, i |-> 0, addressName |-> "", finalAddressId |-> 0,
     insertedOrderItems |-> <<>>, calls |-> <<>>, status |-> 0,
     NODE_ENV |-> "production", exposed |-> FALSE]

CoLog(q, op, result) ==
    [q EXCEPT !.calls = Append(@, [op |-> op, result |-> result])]

CoRespond(q, status) == [q EXCEPT !.pc = "done", !.status = status]

\* process.env.NODE_ENV
NodeEnvs == {"development", "production"}

\* the outer catch: 500 with
\* error: process.env.NODE_ENV === 'development' ? error.message : undefined
\* (exposed: the response carries the message of the exception of a
\* database call)
OuterCatch(q) ==
    [CoRespond(q, 500) EXCEPT !.exposed = (q.NODE_ENV = "development")]

\* a catch that sends the 400 without returning from the handler
AddressCatchNoReturn(q) ==
    [q EXCEPT !.status = 400, !.exposed = TRUE,
              !.pc = "GetDeliveryAddressByOrderId"]

\* the catch around a handleAddress call, entered by a database exception:
\* 400 with message: error.message
AddressCatch(q) == [CoRespond(q, 400) EXCEPT !.exposed = TRUE]

\* the rows of a table after a step of the request failed: the catch blocks
\* issue no compensating delete
RolledBack(rows) == <<>>
KeptOnFailure(rows) == rows

\* the tables are left as they are by a failing step
CoFailureKeeps ==
    /\ coOrders' = KeptOnFailure(coOrders)
    /\ coOrderItems' = KeptOnFailure(coOrderItems)
    /\ coAddresses' = KeptOnFailure(coAddresses)
    /\ coMappings' = KeptOnFailure(coMappings)

\* the arguments of the two handleAddress calls
AddressIdOf(q, addressName) ==
    IF addressName = "delivery" THEN q.payload.deliveryAddressId
    ELSE q.payload.measurementAddressId
AddressObjectOf(q, addressName) ==
    IF addressName = "delivery" THEN q.payload.deliveryAddress
    ELSE q.payload.measurementAddress

\* after both addresses: the reads that build the response
AfterAddresses(q) == [q EXCEPT !.pc = "GetDeliveryAddressByOrderId"]

\* handleAddress(addressId, addressObject, ..) up to its first await, for
\* the delivery address and then the measurement address; the required
\* fields of a new address are checked here, and the Error is answered 400
RECURSIVE HandleAddress(_, _)
HandleAddress(q, addressName) ==
    LET next == IF addressName = "delivery"
                THEN HandleAddress(q, "measurement")
                ELSE AfterAddresses(q)
    IN  IF AddressIdOf(q, addressName) # 0
        THEN [q EXCEPT !.pc = "InsertOrderDeliveryAddressMapping",
                       !.addressName = addressName,
                       !.finalAddressId = AddressIdOf(q, addressName)]
        ELSE IF AddressObjectOf(q, addressName) = "incomplete"
             THEN CoRespond([q EXCEPT !.addressName = addressName], 400)
        ELSE IF AddressObjectOf(q, addressName) = "complete"
             THEN [q EXCEPT !.pc = "InsertDeliveryAddress",
                            !.addressName = addressName]
        ELSE next

\* the code after a handleAddress call returned
AfterAddress(q) ==
    IF q.addressName = "delivery" THEN HandleAddress(q, "measurement")
    ELSE AfterAddresses(q)

\* the request arrives; customerId is checked before any await
CoReceive ==
    /\ coReq.pc = "idle"
    /\ \E payload \in OrderPayloads, env \in NodeEnvs :
          LET q == [CoIdle EXCEPT !.payload = payload, !.NODE_ENV = env]
          IN  coReq' = IF payload.customerId = 0 THEN CoRespond(q, 400)
                       ELSE [q EXCEPT !.pc = "InsertOrder"]
    /\ UNCHANGED coTables
    /\ UNCHANGED notCo

\* const orderResult = await InsertOrder(orderData)
CoInsertOrder ==
    /\ coReq.pc = "InsertOrder"
    /\ \/ /\ coReq' = OuterCatch(CoLog(coReq, "InsertOrder", "threw"))
          /\ CoFailureKeeps
       \/ LET q == [CoLog(coReq, "InsertOrder", "ok") EXCEPT
                        !.orderId = Len(coOrders) + 1]
          IN  /\ coOrders' = Append(coOrders,
                    [customerId |-> q.payload.customerId,
                     totalAmount |-> calculatedTotal(q.payload)])
              /\ coReq' = IF Len(q.payload.orderItems) > 0
                          THEN [q EXCEPT !.pc = "InsertOrderItem", !.i = 1]
                          ELSE HandleAddress(q, "delivery")
              /\ UNCHANGED <<coOrderItems, coAddresses, coMappings>>
    /\ UNCHANGED notCo

\* const itemResult = await InsertOrderItem(orderItemData), for one item of
\* the loop
CoInsertOrderItem ==
    /\ coReq.pc = "InsertOrderItem"
    /\ \/ /\ coReq' = OuterCatch(CoLog(coReq, "InsertOrderItem", "threw"))
          /\ CoFailureKeeps
       \/ LET item == coReq.payload.orderItems[coReq.i]
              q == [CoLog(coReq, "InsertOrderItem", "ok") EXCEPT
                        !.insertedOrderItems =
                            Append(@, Len(coOrderItems) + 1)]
          IN  /\ coOrderItems' = Append(coOrderItems,
                    [orderId |-> q.orderId,
                     quantity |-> IF item.quantity # 0 THEN item.quantity
                                  ELSE 1,
                     unitPrice |-> item.unitPrice])
              /\ coReq' = IF q.i < Len(q.payload.orderItems)
                          THEN [q EXCEPT !.i = @ + 1]
                          ELSE HandleAddress(q, "delivery")
              /\ UNCHANGED <<coOrders, coAddresses, coMappings>>
    /\ UNCHANGED notCo

\* const addressResult = await InsertDeliveryAddress(addressData); the catch
\* around handleAddress answers 400
CoInsertDeliveryAddress ==
    /\ coReq.pc = "InsertDeliveryAddress"
    /\ \/ /\ coReq' = AddressCatch(
                CoLog(coReq, "InsertDeliveryAddress", "threw"))
          /\ CoFailureKeeps
       \/ /\ coAddresses' = Append(coAddresses,
                [userId |-> coReq.payload.customerId])
          /\ coReq' = [CoLog(coReq, "InsertDeliveryAddress", "ok") EXCEPT
                          !.pc = "InsertOrderDeliveryAddressMapping",
                          !.finalAddressId = Len(coAddresses) + 1]
          /\ UNCHANGED <<coOrders, coOrderItems, coMappings>>
    /\ UNCHANGED notCo

\* await InsertOrderDeliveryAddressMapping(mappingData)
CoInsertOrderDeliveryAddressMapping ==
    /\ coReq.pc = "InsertOrderDeliveryAddressMapping"
    /\ \/ /\ coReq' = AddressCatch(
                CoLog(coReq, "InsertOrderDeliveryAddressMapping", "threw"))
          /\ CoFailureKeeps
       \/ /\ coMappings' = Append(coMappings,
                [orderId |-> coReq.orderId,
                 deliveryAddressId |-> coReq.finalAddressId])
          /\ coReq' = AfterAddress(
                CoLog(coReq, "InsertOrderDeliveryAddressMapping", "ok"))
          /\ UNCHANGED <<coOrders, coOrderItems, coAddresses>>
    /\ UNCHANGED notCo

\* one of the three reads that build the response; a throw is a 500
CoRead(op, q) ==
    CASE op = "GetDeliveryAddressByOrderId" -> [q EXCEPT !.pc = "GetOrderById"]
      [] op = "GetOrderById" -> [q EXCEPT !.pc = "GetOrderItemsByOrderId"]
      [] op = "GetOrderItemsByOrderId" -> CoRespond(q, 201)

\* await GetDeliveryAddressByOrderId(orderId)
CoGetDeliveryAddressByOrderId ==
    /\ coReq.pc = "GetDeliveryAddressByOrderId"
    /\ \/ /\ coReq' = OuterCatch(CoLog(coReq, coReq.pc, "threw"))
          /\ CoFailureKeeps
       \/ /\ coReq' = CoRead(coReq.pc, CoLog(coReq, coReq.pc, "ok"))
          /\ UNCHANGED coTables
    /\ UNCHANGED notCo

\* await GetOrderById(orderId)
CoGetOrderById ==
    /\ coReq.pc = "GetOrderById"
    /\ \/ /\ coReq' = OuterCatch(CoLog(coReq, coReq.pc, "threw"))
          /\ CoFailureKeeps
       \/ /\ coReq' = CoRead(coReq.pc, CoLog(coReq, coReq.pc, "ok"))
          /\ UNCHANGED coTables
    /\ UNCHANGED notCo

\* await GetOrderItemsByOrderId(orderId) and the 201 answer
CoGetOrderItemsByOrderId ==
    /\ coReq.pc = "GetOrderItemsByOrderId"
    /\ \/ /\ coReq' = OuterCatch(CoLog(coReq, coReq.pc, "threw"))
          /\ CoFailureKeeps
       \/ /\ coReq' = CoRead(coReq.pc, CoLog(coReq, coReq.pc, "ok"))
          /\ UNCHANGED coTables
    /\ UNCHANGED notCo

CoInit ==
    /\ coOrders = <<>>
    /\ coOrderItems = <<>>
    /\ coAddresses = <<>>
    /\ coMappings = <<>>
    /\ coReq = CoIdle

CoNext ==
    \/ CoReceive
    \/ CoInsertOrder
    \/ CoInsertOrderItem
    \/ CoInsertDeliveryAddress
    \/ CoInsertOrderDeliveryAddressMapping
    \/ CoGetDeliveryAddressByOrderId
    \/ CoGetOrderById
    \/ CoGetOrderItemsByOrderId

(***************************************************************************)
(* POST /createOrder: claims                                               *)
(***************************************************************************)
CoOkCount(op) ==
    Cardinality({k \in 1..Len(coReq.calls) :
                    coReq.calls[k] = [op |-> op, result |-> "ok"]})
CoFailed == coReq.pc = "done" /\ coReq.status \in {400, 500}

\* C16: whatever step of a createOrder request fails after InsertOrder
\* succeeded, every row an earlier insert of the request stored is still
\* stored: the tables hold one row per successful insert call, the order row
\* is the request's, its items and mappings point at it, and the request's
\* insertedOrderItems are its item rows.
C16_NothingRolledBack ==
    /\ Len(coOrders) = CoOkCount("InsertOrder")
    /\ Len(coOrderItems) = CoOkCount("InsertOrderItem")
    /\ Len(coAddresses) = CoOkCount("InsertDeliveryAddress")
    /\ Len(coMappings) = CoOkCount("InsertOrderDeliveryAddressMapping")
    /\ CoOkCount("InsertOrder") = 1 =>
          /\ coReq.orderId = 1
          /\ coOrders[1].customerId = coReq.payload.customerId
    /\ \A k \in 1..Len(coOrderItems) : coOrderItems[k].orderId = coReq.orderId
    /\ \A k \in 1..Len(coMappings) : coMappings[k].orderId = coReq.orderId
    /\ coReq.insertedOrderItems = [k \in 1..Len(coOrderItems) |-> k]

\* a request whose measurement address lacks a field, after the order, an
\* item, a new delivery address and its mapping were stored
C16_Witness ==
    /\ CoFailed
    /\ coReq.status = 400
    /\ coReq.addressName = "measurement"
    /\ coReq.payload.measurementAddress = "incomplete"
    /\ Len(coOrders) = 1
    /\ Len(coOrderItems) >= 1
    /\ Len(coAddresses) = 1
    /\ Len(coMappings) = 1

\* C23: a failing request is answered with the message of the exception
\* only when the process is not in production mode.
C23_NoExceptionDetailInProduction ==
    (coReq.pc = "done" /\ coReq.NODE_ENV = "production") => ~coReq.exposed

\* C24: the totalAmount stored with the order is the totalAmount of the body
\* whenever the body carries one, and the sum over the order items (itemTotal,
\* else quantity x unitPrice, else 0) only when it carries none.
C24_SuppliedTotalAmountStored ==
    coReq.orderId # 0 =>
        LET stored == coOrders[coReq.orderId].totalAmount
        IN  /\ coReq.payload.totalAmount # 0 =>
                  stored = coReq.payload.totalAmount
            /\ coReq.payload.totalAmount = 0 =>
                  stored = SumItemTotals(coReq.payload.orderItems)

(***************************************************************************)
(* Order, order item and delivery address update; delivery address create  *)
(***************************************************************************)
UpdateRoutes == {"PutOrder", "PutOrderItem", "PutDeliveryAddress"}
DeleteRoutes ==
    {"DeleteOrder", "DeleteOrderItem", "DeleteDeliveryAddress",
     "DeleteBusinessInformation"}
UpRoutes == UpdateRoutes \cup DeleteRoutes \cup {"PostDeliveryAddress"}

\* the awaited calls of a route after its body check, in source order
UpStages(route) ==
    CASE route = "PutOrder" ->
            <<"UpdateOrder", "GetOrderById", "GetOrderItemsByOrderId">>
      [] route = "PutOrderItem" ->
            <<"UpdateOrderItem", "GetOrderItemsByOrderId">>
      [] route = "PutDeliveryAddress" ->
            <<"UpdateDeliveryAddress", "GetDeliveryAddressesByUserId">>
      [] route = "PostDeliveryAddress" ->
            <<"InsertDeliveryAddress", "InsertOrderDeliveryAddressMapping",
              "GetDeliveryAddressByOrderId">>
      [] route \in DeleteRoutes -> <<route>>

UpdateStatements ==
    {"UpdateOrder", "UpdateOrderItem", "UpdateDeliveryAddress"} \cup DeleteRoutes
FollowUpReads ==
    {"GetOrderById", "GetOrderItemsByOrderId", "GetDeliveryAddressesByUserId",
     "GetDeliveryAddressByOrderId"}

\* result.rowsAffected of an UPDATE or DELETE: absent, or the count of the
\* statement
RowsAffectedResults == {<<>>, <<0>>, <<1>>}
\* no statement has returned yet
NoResult == <<-1>>

\* the body of a request: for an update whether any updatable member is
\* given, for the address create whether every required member is
UpBodies == {"empty", "given"}

UpIdle ==
    [route |-> "none", pc |-> "idle", body |-> "empty", stage |-> 0,
     newDeliveryAddressId |-> 0, rowsAffected |-> NoResult, calls |-> <<>>,
     status |-> 0]

UpLog(q, op, result) ==
    [q EXCEPT !.calls = Append(@, [op |-> op, result |-> result])]

UpRespond(q, status) == [q EXCEPT !.pc = "done", !.status = status]

\* the call after the one the request is at, or the success answer
UpAdvance(q) ==
    IF q.stage < Len(UpStages(q.route))
    THEN [q EXCEPT !.stage = @ + 1, !.pc = UpStages(q.route)[q.stage + 1]]
    ELSE UpRespond(q, IF q.route = "PostDeliveryAddress" THEN 201 ELSE 200)

\* the branch without the comparison with 0
RowsAffectedPresent(rowsAffected) == rowsAffected # <<>>

\* result && result.rowsAffected && result.rowsAffected[0] > 0
RowsWereAffected(rowsAffected) == rowsAffected # <<>> /\ rowsAffected[1] > 0

\* the request arrives: Object.keys(updateData).length === 0, or a missing
\* required member of the address, is a 400; a delete reads no body
UpReceive ==
    /\ upReq.pc = "idle"
    /\ \E route \in UpRoutes, body \in UpBodies :
          LET q == [UpIdle EXCEPT !.route = route, !.body = body]
          IN  /\ route \in DeleteRoutes => body = "given"
              /\ upReq' = IF body = "empty" THEN UpRespond(q, 400)
                          ELSE UpAdvance(q)
    /\ UNCHANGED <<coTables>>
    /\ UNCHANGED notUp

\* const result = await UpdateOrder / UpdateOrderItem / UpdateDeliveryAddress
\* / DeleteOrder / DeleteOrderItem / DeleteDeliveryAddress /
\* DeleteBusinessInformation, and the branch on result.rowsAffected
UpUpdateStatement ==
    /\ upReq.pc \in UpdateStatements
    /\ \/ upReq' = UpRespond(UpLog(upReq, upReq.pc, "threw"), 500)
       \/ \E rowsAffected \in RowsAffectedResults :
             LET q == [UpLog(upReq, upReq.pc, "ok") EXCEPT
                          !.rowsAffected = rowsAffected]
             IN  upReq' = IF RowsWereAffected(rowsAffected) THEN UpAdvance(q)
                          ELSE UpRespond(q, 404)
    /\ UNCHANGED <<coTables>>
    /\ UNCHANGED notUp

\* const result = await InsertDeliveryAddress(addressData)
UpInsertDeliveryAddress ==
    /\ upReq.pc = "InsertDeliveryAddress"
    /\ \/ /\ upReq' = UpRespond(UpLog(upReq, upReq.pc, "threw"), 500)
          /\ UNCHANGED coAddresses
       \/ /\ coAddresses' = Append(coAddresses, [userId |-> 1])
          /\ upReq' = UpAdvance([UpLog(upReq, upReq.pc, "ok") EXCEPT
                          !.newDeliveryAddressId = Len(coAddresses) + 1])
    /\ UNCHANGED <<coOrders, coOrderItems, coMappings>>
    /\ UNCHANGED notUp

\* await InsertOrderDeliveryAddressMapping(mappingData)
UpInsertOrderDeliveryAddressMapping ==
    /\ upReq.pc = "InsertOrderDeliveryAddressMapping"
    /\ \/ /\ upReq' = UpRespond(UpLog(upReq, upReq.pc, "threw"), 500)
          /\ UNCHANGED coMappings
       \/ /\ coMappings' = Append(coMappings,
                [orderId |-> 1,
                 deliveryAddressId |-> upReq.newDeliveryAddressId])
          /\ upReq' = UpAdvance(UpLog(upReq, upReq.pc, "ok"))
    /\ UNCHANGED <<coOrders, coOrderItems, coAddresses>>
    /\ UNCHANGED notUp

\* a read that builds the success response
UpFollowUpRead ==
    /\ upReq.pc \in FollowUpReads
    /\ \/ upReq' = UpRespond(UpLog(upReq, upReq.pc, "threw"), 500)
       \/ upReq' = UpAdvance(UpLog(upReq, upReq.pc, "ok"))
    /\ UNCHANGED <<coTables>>
    /\ UNCHANGED notUp

UpInit == upReq = UpIdle

UpNext ==
    \/ UpReceive
    \/ UpUpdateStatement
    \/ UpInsertDeliveryAddress
    \/ UpInsertOrderDeliveryAddressMapping
    \/ UpFollowUpRead

(***************************************************************************)
(* PUT /business/:businessId with tailoringCategoriesDetails               *)
(***************************************************************************)
\* item.ItemId of a list member; 0 stands for an absent or null ItemId
ItemIdInputs == {0, 1, 2}
DetailsInputs == SeqsUpTo(ItemIdInputs, MaxDetails)

BuIdle ==
    [pc |-> "idle", businessId |-> 0, details |-> <<>>, statements |-> <<>>,
     rowsAffected |-> NoResult, calls |-> <<>>, status |-> 0]

BuLog(q, op, result) ==
    [q EXCEPT !.calls = Append(@, [op |-> op, result |-> result])]

BuRespond(q, status) == [q EXCEPT !.pc = "done", !.status = status]

\* SELECT ... FROM TailorItemPrice WHERE BusinessId = ..
PricesOfBusiness(rows, businessId) ==
    {row \in rows : row.BusinessId = businessId}

\* existingPricesMap: the rows of the snapshot keyed by their non-null ItemId
existingPricesMap(existingPrices) ==
    {row.ItemId : row \in {e \in existingPrices : e.ItemId # 0}}

\* item.ItemId ? existingPricesMap[item.ItemId] : null, and the branch on it
UpsertOp(ItemId, pricesMap) ==
    IF ItemId # 0 /\ ItemId \in pricesMap THEN "UpdateTailorItemPrice"
    ELSE "InsertTailorItemPrice"

\* tailoringCategoriesWithDetailsArray.map(async (item) => ...): every
\* callback runs up to its await, so all statements are issued at once
IssuedStatements(details, pricesMap) ==
    [k \in DOMAIN details |->
        [op |-> UpsertOp(details[k], pricesMap), ItemId |-> details[k],
         result |-> "pending"]]

\* await Promise.all(...): rejected by the first rejection, fulfilled when
\* every promise is; the catch only logs, and the answer is 200 either way
PromiseAllSettled(statements) ==
    \/ \E k \in DOMAIN statements : statements[k].result = "threw"
    \/ \A k \in DOMAIN statements : statements[k].result = "ok"

AfterStatement(q) ==
    IF q.pc = "Promise.all" /\ PromiseAllSettled(q.statements)
    THEN BuRespond(q, 200)
    ELSE q

\* the request arrives; updateData is built from the body
BuReceive ==
    /\ buReq.pc = "idle"
    /\ \E details \in DetailsInputs :
          /\ Cardinality(tailorItemPrices) + Len(details) <= MaxPriceRows
          /\ buReq' = [BuIdle EXCEPT !.pc = "UpdateBusinessByBusinessId",
                                     !.businessId = 1, !.details = details]
    /\ UNCHANGED <<tailorItemPrices, nextTailorItemPriceId>>
    /\ UNCHANGED notBu

\* const result = await UpdateBusinessByBusinessId(updateData)
BuUpdateBusinessByBusinessId ==
    /\ buReq.pc = "UpdateBusinessByBusinessId"
    /\ \/ buReq' = BuRespond(
                      BuLog(buReq, "UpdateBusinessByBusinessId", "threw"), 500)
       \/ \E rowsAffected \in RowsAffectedResults :
             LET q == [BuLog(buReq, "UpdateBusinessByBusinessId", "ok")
                          EXCEPT !.rowsAffected = rowsAffected]
             IN  buReq' =
                    IF ~RowsWereAffected(rowsAffected) THEN BuRespond(q, 404)
                    ELSE IF Len(q.details) > 0
                         THEN [q EXCEPT
                                 !.pc = "GetTailorItemPricesByBusinessId"]
                         ELSE BuRespond(q, 200)
    /\ UNCHANGED <<tailorItemPrices, nextTailorItemPriceId>>
    /\ UNCHANGED notBu

\* const existingPrices = await GetTailorItemPricesByBusinessId(...), then
\* the map over the list up to Promise.all
BuGetTailorItemPricesByBusinessId ==
    /\ buReq.pc = "GetTailorItemPricesByBusinessId"
    /\ \/ buReq' = BuRespond(
               BuLog(buReq, "GetTailorItemPricesByBusinessId", "threw"), 200)
       \/ LET q == BuLog(buReq, "GetTailorItemPricesByBusinessId", "ok")
              existingPrices ==
                  PricesOfBusiness(tailorItemPrices, q.businessId)
          IN  buReq' = [q EXCEPT
                  !.pc = "Promise.all",
                  !.statements = IssuedStatements(q.details,
                                     existingPricesMap(existingPrices))]
    /\ UNCHANGED <<tailorItemPrices, nextTailorItemPriceId>>
    /\ UNCHANGED notBu

\* one issued InsertTailorItemPrice or UpdateTailorItemPrice completes, in
\* any order, also after the response when an earlier one was rejected
BuStatementCompletes ==
    \E k \in DOMAIN buReq.statements :
        LET st == buReq.statements[k]
            settled(result) ==
                AfterStatement(
                    [BuLog(buReq, st.op, result) EXCEPT
                        !.statements[k].result = result])
        IN  /\ st.result = "pending"
            /\ \/ /\ buReq' = settled("threw")
                  /\ UNCHANGED <<tailorItemPrices, nextTailorItemPriceId>>
               \/ /\ st.op = "InsertTailorItemPrice"
                  /\ tailorItemPrices' = tailorItemPrices \cup
                        {[TailorItemPriceId |-> nextTailorItemPriceId,
                          BusinessId |-> buReq.businessId,
                          ItemId |-> st.ItemId]}
                  /\ nextTailorItemPriceId' = nextTailorItemPriceId + 1
                  /\ buReq' = settled("ok")
               \/ /\ st.op = "UpdateTailorItemPrice"
                  /\ buReq' = settled("ok")
                  /\ UNCHANGED <<tailorItemPrices, nextTailorItemPriceId>>
            /\ UNCHANGED notBu

\* the handler and every statement it issued are finished
BuReturn ==
    /\ buReq.pc = "done"
    /\ \A k \in DOMAIN buReq.statements :
          buReq.statements[k].result # "pending"
    /\ buReq' = BuIdle
    /\ UNCHANGED <<tailorItemPrices, nextTailorItemPriceId>>
    /\ UNCHANGED notBu

BuInit ==
    /\ tailorItemPrices = {}
    /\ nextTailorItemPriceId = 1
    /\ buReq = BuIdle

BuNext ==
    \/ BuReceive
    \/ BuUpdateBusinessByBusinessId
    \/ BuGetTailorItemPricesByBusinessId
    \/ BuStatementCompletes
    \/ BuReturn

(***************************************************************************)
(* Claims about PUT /business/:businessId                                  *)
(***************************************************************************)
\* C20: after any sequence of PUT /business/:businessId requests with a
\* tailoringCategoriesDetails list there is at most one TailorItemPrice row
\* per (BusinessId, ItemId) with a non-null ItemId.
C20_OneRowPerBusinessAndItem ==
    \A a, b \in tailorItemPrices :
        (a.BusinessId = b.BusinessId /\ a.ItemId = b.ItemId /\ a.ItemId # 0)
            => a = b

(***************************************************************************)
(* authenticateToken                                                       *)
(***************************************************************************)
\* the payload of a token: userId and email
TokenUserIds == {1, 2, 3}
TokenEmails == {"a@x", "b@x"}

\* a word after the scheme: the empty string, or a JWT that is or is not
\* signed with the secret and is or is not expired
EmptyWord ==
    [text |-> "", signed |-> FALSE, expired |-> FALSE, userId |-> 0,
     email |-> ""]
Jwts ==
    [text : {"jwt"}, signed : BOOLEAN, expired : BOOLEAN,
     userId : TokenUserIds, email : TokenEmails]

\* req.headers['authorization']: absent, or a scheme word followed by at
\* most one more word
AuthorizationHeaders ==
    [present : BOOLEAN, scheme : {"Bearer", "Basic"},
     rest : SeqsUpTo(Jwts \cup {EmptyWord}, 1)]

\* authHeader && authHeader.split(' ')[1]; EmptyWord stands for every falsy
\* outcome (undefined and "")
TokenOf(authHeader) ==
    IF authHeader.present /\ Len(authHeader.rest) >= 1
    THEN authHeader.rest[1]
    ELSE EmptyWord

\* a verification that does not look at the expiry
VerifyErrSignatureOnly(token, secretSet) == ~secretSet \/ ~token.signed

\* the err of jwt.verify(token, process.env.JWT_SECRET, callback)
VerifyErr(token, secretSet) == ~secretSet \/ ~token.signed \/ token.expired

NoUser == [userId |-> 0, email |-> ""]

AuIdle ==
    [pc |-> "idle", authHeader |-> [present |-> FALSE, scheme |-> "Bearer",
                                    rest |-> <<>>],
     secretSet |-> TRUE, user |-> NoUser, nextCalled |-> FALSE,
     status |-> 0]

\* the middleware up to jwt.verify: a missing token is a 401
AuReceive ==
    /\ auReq.pc = "idle"
    /\ \E authHeader \in AuthorizationHeaders, secretSet \in BOOLEAN :
          LET q == [AuIdle EXCEPT !.authHeader = authHeader,
                                  !.secretSet = secretSet]
          IN  /\ ~authHeader.present =>
                    authHeader.scheme = "Bearer" /\ authHeader.rest = <<>>
              /\ auReq' = IF TokenOf(authHeader).text = ""
                          THEN [q EXCEPT !.pc = "done", !.status = 401]
                          ELSE [q EXCEPT !.pc = "jwt.verify"]
    /\ UNCHANGED notAu

\* the callback of jwt.verify: err is a 403, otherwise req.user is set from
\* decoded and next() is called
AuVerifyCallback ==
    /\ auReq.pc = "jwt.verify"
    /\ LET token == TokenOf(auReq.authHeader)
       IN  auReq' =
             IF VerifyErr(token, auReq.secretSet)
             THEN [auReq EXCEPT !.pc = "done", !.status = 403]
             ELSE [auReq EXCEPT !.pc = "handler",
                                !.user = [userId |-> token.userId,
                                          email |-> token.email],
                                !.nextCalled = TRUE]
    /\ UNCHANGED notAu

AuInit == auReq = AuIdle

AuNext ==
    \/ AuReceive
    \/ AuVerifyCallback

(***************************************************************************)
(* Claims about authenticateToken                                          *)
(***************************************************************************)
\* the request carries no token: no header, or no non-empty second word
CarriesNoToken ==
    \/ ~auReq.authHeader.present
    \/ auReq.authHeader.rest = <<>>
    \/ auReq.authHeader.rest = <<EmptyWord>>
\* the token of the request, and whether it verifies
CarriedToken == auReq.authHeader.rest[1]
TokenVerifies ==
    /\ ~CarriesNoToken
    /\ auReq.secretSet
    /\ CarriedToken.signed
    /\ ~CarriedToken.expired
AuSettled == auReq.pc \in {"done", "handler"}

\* C22: a request without a token is answered 401 and one whose token fails
\* verification 403, in both cases without next being called; whenever the
\* handler is invoked req.user has been set from the verified token.
C22_HandlerOnlyBehindVerifiedToken ==
    /\ (AuSettled /\ CarriesNoToken) =>
            auReq.status = 401 /\ ~auReq.nextCalled
    /\ (AuSettled /\ ~CarriesNoToken /\ ~TokenVerifies) =>
            auReq.status = 403 /\ ~auReq.nextCalled
    /\ auReq.nextCalled =>
            /\ TokenVerifies
            /\ auReq.status = 0
            /\ auReq.user = [userId |-> CarriedToken.userId,
                             email |-> CarriedToken.email]

\* the handler was invoked for the user of a verified token
C22_Witness ==
    /\ auReq.pc = "handler"
    /\ auReq.nextCalled
    /\ TokenVerifies
    /\ auReq.user.userId = 2

(***************************************************************************)
(* Claims about the update and delete routes                               *)
(***************************************************************************)
\* an update or delete of an order, order item, delivery address or of the
\* business information was answered
UpAnswered ==
    upReq.pc = "done" /\ upReq.route \in UpdateRoutes \cup DeleteRoutes
BuAnswered == buReq.pc = "done"
NoneAffected(q) == q.rowsAffected \in {<<>>, <<0>>}
SomeAffected(q) == q.rowsAffected = <<1>>
LastCallThrew(q) ==
    Len(q.calls) > 1 /\ q.calls[Len(q.calls)].result = "threw"

\* C21 as stated: every update and delete route answers 404 exactly when the
\* affected-row count of its statement is 0 or absent and 200 exactly when
\* it is greater than 0, and makes no further call on 404.
C21_AsStated ==
    /\ UpAnswered =>
          /\ upReq.status = 404 <=> NoneAffected(upReq)
          /\ upReq.status = 200 <=> SomeAffected(upReq)
          /\ upReq.status = 404 => Len(upReq.calls) = 1
    /\ BuAnswered =>
          /\ buReq.status = 404 <=> NoneAffected(buReq)
          /\ buReq.status = 200 <=> SomeAffected(buReq)
          /\ buReq.status = 404 => Len(buReq.calls) = 1

\* C21: every update and delete route answers 404 exactly when its statement
\* returned an affected-row count that is 0 or absent, and makes no further
\* call then; it answers 200 only when the count is greater than 0, and with
\* a count greater than 0 the answer is 200 unless a follow-up read of the
\* order, order item or delivery address update throws, which is a 500.
C21_NotFoundIffNoRowAffected ==
    /\ UpAnswered =>
          /\ upReq.status = 404 <=> NoneAffected(upReq)
          /\ upReq.status = 200 => SomeAffected(upReq)
          /\ SomeAffected(upReq) =>
                \/ upReq.status = 200
                \/ upReq.status = 500 /\ upReq.route \in UpdateRoutes
                                      /\ LastCallThrew(upReq)
          /\ upReq.status = 404 => Len(upReq.calls) = 1
    /\ BuAnswered =>
          /\ buReq.status = 404 <=> NoneAffected(buReq)
          /\ buReq.status = 200 <=> SomeAffected(buReq)
          /\ buReq.status = 404 =>
                Len(buReq.calls) = 1 /\ buReq.statements = <<>>

\* an order update whose statement affected no row was answered 404
C21_Witness ==
    /\ UpAnswered
    /\ upReq.route = "PutOrder"
    /\ upReq.rowsAffected = <<0>>
    /\ upReq.status = 404
    /\ Len(upReq.calls) = 1

(***************************************************************************)
(* Claims about the 400 responses of all routes                            *)
(***************************************************************************)
\* the check that precedes the first database call of each handler failed
MsFirstCheckFailed(q) == q.pc = "done" /\ BodyIncomplete(q)
TdFirstCheckFailed(q) == q.pc = "done" /\ ~TdValid(q.payload)
PrFirstCheckFailed ==
    /\ prReq.pc = "done"
    /\ \/ prReq.kind = "create" /\ ~RequiredFieldsOk(prReq.payload)
       \/ prReq.kind = "update" /\ isNaN(prReq.param)
CoFirstCheckFailed == coReq.pc = "done" /\ coReq.payload.customerId = 0
UpFirstCheckFailed == upReq.pc = "done" /\ upReq.body = "empty"

\* C15 as stated: a request answered 400 by createOrder, the order and
\* order item updates, the delivery address create, tailor-date-availability,
\* submit-measurement or the product create and update has made no database
\* call.
C15_AsStated ==
    /\ msReq[1].status = 400 => msReq[1].calls = <<>>
    /\ \A r \in TdRequests : tdReq[r].status = 400 => tdReq[r].calls = <<>>
    /\ (IsCreateOrUpdate /\ prReq.status = 400) => prReq.calls = <<>>
    /\ coReq.status = 400 => coReq.calls = <<>>
    /\ upReq.status = 400 => upReq.calls = <<>>

\* C15: a request that fails the check at the top of its handler (createOrder
\* without customerId, an order, order item or delivery address update with
\* nothing to update, a delivery address create lacking a required member,
\* tailor-date-availability lacking businessId, date or isClosed,
\* submit-measurement lacking measurements or orderItemId, a product create
\* lacking a valid title or price_mrp, a product update with a non-numeric
\* id) is answered 400 and makes no database call; every other 400 of these
\* routes follows at least one database call.
C15_FirstCheck400MakesNoCall ==
    /\ MsFirstCheckFailed(msReq[1]) =>
            msReq[1].status = 400 /\ msReq[1].calls = <<>>
    /\ (msReq[1].status = 400 /\ msReq[1].calls = <<>>) =>
            MsFirstCheckFailed(msReq[1])
    /\ \A r \in TdRequests :
         /\ TdFirstCheckFailed(tdReq[r]) =>
                tdReq[r].status = 400 /\ tdReq[r].calls = <<>>
         /\ (tdReq[r].status = 400 /\ tdReq[r].calls = <<>>) =>
                TdFirstCheckFailed(tdReq[r])
    /\ PrFirstCheckFailed => prReq.status = 400 /\ prReq.calls = <<>>
    /\ (IsCreateOrUpdate /\ prReq.status = 400 /\ prReq.calls = <<>>) =>
            PrFirstCheckFailed
    /\ CoFirstCheckFailed => coReq.status = 400 /\ coReq.calls = <<>>
    /\ (coReq.status = 400 /\ coReq.calls = <<>>) => CoFirstCheckFailed
    /\ UpFirstCheckFailed => upReq.status = 400 /\ upReq.calls = <<>>
    /\ (upReq.status = 400 /\ upReq.calls = <<>>) => UpFirstCheckFailed

\* a product create without a valid title or price_mrp was answered
C15_Witness ==
    /\ prReq.kind = "create"
    /\ PrFirstCheckFailed
    /\ prReq.status = 400
    /\ prReq.calls = <<>>

(***************************************************************************)
(* The handlers under fair scheduling: every database call returns or      *)
(* throws, so a handler that waits at an await takes its next step         *)
(***************************************************************************)
\* the steps a handler takes after its request was received
MoServed == MsInit /\ TdInit /\ PrInit /\ CoInit /\ AuInit
MoSteps == MoServed /\ MoNext
MsSteps ==
    \/ MsGetUserRoles(1)
    \/ MsGetMeasurement(1)
    \/ MsUpdateMeasurement(1)
    \/ MsInsertMeasurement(1)
    \/ MsCheckAllMeasurementsDone(1)
    \/ MsUpdateOrderItemsMeasurementDone(1)
\* the submissions: at most one field, or the two spellings of the chest
\* followed by the waist
HandlerPayloads ==
    {p \in Payloads : Len(p.fields) <= 1}
    \cup {p \in CasePayloads : Len(p.fields) = 3 /\ p.orderId = "1"}
MsHandlerNext ==
    \/ MsReceive(1, HandlerPayloads)
    \/ MsSteps
    \/ MsReturn(1)
TdSteps ==
    \E r \in TdRequests :
        \/ TdCheckTailorDateAvailabilityExists(r)
        \/ TdUpdateTailorDateAvailability(r)
        \/ TdInsertTailorDateAvailability(r)
PrSteps ==
    \/ PrGetProductById
    \/ PrResolveBrand
    \/ PrResolveCategory
    \/ PrInsertProduct
    \/ PrUpdateProduct
    \/ PrInsertUserProduct
    \/ PrInsertProductPrice
    \/ PrUpdateProductPrice
    \/ PrInsertProductCompliance
    \/ PrUpdateProductCompliance
    \/ PrDeleteProductImages
    \/ PrDeleteProductCompliance
    \/ PrDeleteProductPrice
    \/ PrDeleteUserProduct
    \/ PrDeleteProduct
    \/ PrInsertProductImage
CoSteps ==
    \/ CoInsertOrder
    \/ CoInsertOrderItem
    \/ CoInsertDeliveryAddress
    \/ CoInsertOrderDeliveryAddressMapping
    \/ CoGetDeliveryAddressByOrderId
    \/ CoGetOrderById
    \/ CoGetOrderItemsByOrderId

\* one router per behaviour
HandlersNext ==
    \/ MoSteps
    \/ moPc = "start" /\ TdInit /\ PrInit /\ CoInit /\ AuInit
          /\ MsHandlerNext
    \/ moPc = "start" /\ MsInit /\ PrInit /\ CoInit /\ AuInit
          /\ TdSequentialNext
    \/ moPc = "start" /\ MsInit /\ TdInit /\ CoInit /\ AuInit /\ PrNext
    \/ moPc = "start" /\ MsInit /\ TdInit /\ PrInit /\ AuInit /\ CoNext
    \/ moPc = "start" /\ MsInit /\ TdInit /\ PrInit /\ CoInit /\ AuNext

HandlersFairness ==
    /\ WF_vars(MoSteps)
    /\ WF_vars(MsSteps)
    /\ WF_vars(TdSteps)
    /\ WF_vars(PrSteps)
    /\ WF_vars(CoSteps)
    /\ WF_vars(AuVerifyCallback)

(***************************************************************************)
(* Termination of the handlers                                             *)
(***************************************************************************)
\* a request whose handler has not sent its response yet; the handlers run
\* one at a time, so at most one request is running
Running(q) == q.pc \notin {"idle", "done"}
SomeRunning ==
    \/ MoServed /\ moPc # "done"
    \/ Running(msReq[1])
    \/ \E r \in TdRequests : Running(tdReq[r])
    \/ Running(prReq)
    \/ Running(coReq)
    \/ auReq.pc = "jwt.verify"
\* a response was sent exactly when the handler has finished
SentWhenDone(q) == (q.status # 0) <=> (q.pc = "done")
\* after the response the request makes no call and sends nothing more
QuietAfter(q, qNext) ==
    q.status # 0 =>
        \/ qNext.calls = q.calls /\ qNext.status = q.status
                                 /\ qNext.pc = "done"
        \/ qNext.pc = "idle"

OneResponse ==
    /\ (moStatus # 0) <=> (moPc = "done")
    /\ SentWhenDone(msReq[1])
    /\ \A r \in TdRequests : SentWhenDone(tdReq[r])
    /\ SentWhenDone(prReq)
    /\ SentWhenDone(coReq)
    /\ SentWhenDone(auReq)
    /\ auReq.nextCalled <=> auReq.pc = "handler"

NoCallAfterResponse ==
    /\ moStatus # 0 => moCalls' = moCalls /\ moStatus' = moStatus
    /\ QuietAfter(msReq[1], msReq'[1])
    /\ \A r \in TdRequests : QuietAfter(tdReq[r], tdReq'[r])
    /\ QuietAfter(prReq, prReq')
    /\ QuietAfter(coReq, coReq')
    /\ auReq.status # 0 => auReq' = auReq

\* C30: every request to createOrder, my-orders, submit-measurement, the
\* tailor-date-availability upsert and product create, update and delete,
\* and every pass through authenticateToken, eventually sends its response
\* (the middleware: responds or calls next), sends exactly one, and makes no
\* database call after sending it.
C30_EveryRequestAnsweredOnce ==
    /\ []OneResponse
    /\ [][NoCallAfterResponse]_vars
    /\ SomeRunning ~> ~SomeRunning

\* createOrder answered 400 from the catch around handleAddress, after the
\* order and its items were inserted
C30_Witness ==
    /\ coReq.pc = "done"
    /\ coReq.status = 400
    /\ Len(coReq.calls) >= 3
    /\ coReq.calls[Len(coReq.calls)].result = "threw"

(***************************************************************************)
(* Specifications: every handler starts from the same initial database.    *)
(***************************************************************************)
Init ==
    /\ MoInit /\ MsInit /\ MbInit /\ TdInit /\ PrInit /\ CoInit /\ UpInit
    /\ BuInit /\ AuInit /\ OiInit

SpecMyOrders == Init /\ [][MoNext]_vars

SpecMeasurement == Init /\ [][MsNext]_vars

SpecMeasurementRace == Init /\ [][MsRaceNext]_vars

SpecMeasurementCase == Init /\ [][MsCaseNext]_vars

SpecMeasurementCaseRace == Init /\ [][MsCaseRaceNext]_vars

SpecMeasurementItems == Init /\ [][MsItemsNext]_vars

SpecAvailability == Init /\ [][TdSequentialNext]_vars

SpecAvailabilityRace == Init /\ [][TdConcurrentNext]_vars

SpecProduct == Init /\ [][PrNext]_vars

SpecOrder == Init /\ [][CoNext]_vars

SpecBusiness == Init /\ [][BuNext]_vars

SpecAuth == Init /\ [][AuNext]_vars

SpecHandlers == Init /\ [][HandlersNext]_vars /\ HandlersFairness

\* one request to one of the mounted routes, against the initial database
RoutesNext ==
    \/ TdInit /\ PrInit /\ CoInit /\ UpInit /\ BuInit /\ MsNext
    \/ MsInit /\ MbInit /\ PrInit /\ CoInit /\ UpInit /\ BuInit
          /\ TdSequentialNext
    \/ MsInit /\ MbInit /\ TdInit /\ CoInit /\ UpInit /\ BuInit /\ PrNext
    \/ MsInit /\ MbInit /\ TdInit /\ PrInit /\ UpInit /\ BuInit /\ CoNext
    \/ MsInit /\ MbInit /\ TdInit /\ PrInit /\ BuInit /\ coReq = CoIdle
          /\ UpNext
    \/ MsInit /\ MbInit /\ TdInit /\ PrInit /\ CoInit /\ UpInit /\ BuNext

SpecRoutes == Init /\ [][RoutesNext]_vars

=============================================================================
